---- MODULE Spec2Model ----
(***************************************************************************)
(* Pipeline orchestrator (App.handleSubmit) and analysis cache              *)
(* (services/cacheService.ts) of ai-seo-orchestrator.                       *)
(*                                                                          *)
(* handleSubmit is an async function: every action below is one             *)
(* synchronous segment of it, from the resumption after one await to the    *)
(* suspension at the next one.  React applies the functional state         *)
(* updaters of a segment in call order, so a segment's effect on the        *)
(* stages is the left-to-right composition of its updateStage calls; the    *)
(* status changes they make are recorded, in order, in trace.               *)
(* Strings are sequences of UTF-16 code units.                              *)
(***************************************************************************)
EXTENDS Integers, Sequences, FiniteSets, TLC

\* ------------------------------------------------------------------------
\* Bounds of the model
\* ------------------------------------------------------------------------
MaxRuns == 2
MaxTicks == 1
MaxCallbacks == 1
\* the longest list of URLs a crawl discovers
MaxDiscovered == 101

\* ------------------------------------------------------------------------
\* Program constants
\* ------------------------------------------------------------------------
DEFAULT_TTL_MS == 604800000
MAX_CACHE_SIZE == 50
MAX_URLS_FOR_ANALYSIS == 100
CLEANUP_INTERVAL_MS == 3600000
QUOTA_EVICT_COUNT == 5
FNV_OFFSET_HI == 33052
FNV_OFFSET_LO == 40389
SEPARATOR == 124

Nil == "nil"
Unset == -1
NoMeta == [lastCleanup |-> Unset, entries |-> Unset]
NoResult == [sitewide |-> Unset, seo |-> Unset]
\* Date.now() as stored in a stage or a log entry: only its presence is kept
Stamp(t) == "Date.now()"

\* ------------------------------------------------------------------------
\* simpleHash: 32-bit FNV-1a, kept as two 16-bit limbs [hi, lo]
\* ------------------------------------------------------------------------
RECURSIVE Xor(_, _)
Xor(a, b) ==
  IF a = 0 THEN b
  ELSE IF b = 0 THEN a
  ELSE (((a % 2) + (b % 2)) % 2)
       + 2 * (CHOOSE r \in { Xor(x, y) : x \in {a \div 2}, y \in {b \div 2} } : TRUE)

\* hash ^= str.charCodeAt(i): the code unit is 16 bits wide, so only lo changes
HashXor(h, c) == [hi |-> h.hi, lo |-> Xor(h.lo, c)]

\* HashMix without the (hash << 24) term
HashMixNoTop(h) ==
  LET lo403 == h.lo * 403
      hiSum == (h.hi * 403) + (lo403 \div 65536)
  IN  [hi |-> hiSum % 65536, lo |-> lo403 % 65536]

\* hash += (hash<<1) + (hash<<4) + (hash<<7) + (hash<<8) + (hash<<24).
\* Each shift gives a 32-bit integer; the sum is exact (it stays far below
\* 2^53) and is read back through ToInt32 by the next ^= or through
\* ToUint32 by >>> 0, so it is kept modulo 2^32.
\* ShlLo(k), ShlHi(k): the limbs of the 32-bit value hash << k.
HashMix(h) ==
  LET ShlLo(k) == IF k < 16 THEN (h.lo * (2 ^ k)) % 65536 ELSE 0
      ShlHi(k) ==
        IF k < 16
        THEN ((h.hi * (2 ^ k)) + ((h.lo * (2 ^ k)) \div 65536)) % 65536
        ELSE (h.lo * (2 ^ (k - 16))) % 65536
      lo == h.lo + ShlLo(1) + ShlLo(4) + ShlLo(7) + ShlLo(8) + ShlLo(24)
      hi == h.hi + ShlHi(1) + ShlHi(4) + ShlHi(7) + ShlHi(8) + ShlHi(24)
  IN  [hi |-> (hi + (lo \div 65536)) % 65536, lo |-> lo % 65536]

\* for (let i = 0; i < str.length; i++): the characters i..j of str, in
\* order.  The range is halved so that a long string needs no deep
\* recursion; (n \in {...} names the hash after the first half, so that it
\* is computed once)
RECURSIVE HashLoop(_, _, _, _)
HashLoop(str, i, j, h) ==
  IF i > j THEN h
  ELSE IF i = j
       THEN CHOOSE r \in { HashMix(x) : x \in { HashXor(h, str[i]) } } : TRUE
  ELSE CHOOSE r \in { HashLoop(str, ((i + j) \div 2) + 1, j, n) :
                      n \in { HashLoop(str, i, (i + j) \div 2, h) } } : TRUE

\* (hash >>> 0).toString(36): base-36 digits, most significant first
RECURSIVE ToBase36(_)
ToBase36(h) ==
  LET qhi == h.hi \div 36
      mid == ((h.hi % 36) * 65536) + h.lo
      qlo == mid \div 36
      d   == mid % 36
  IN  IF qhi = 0 /\ qlo = 0 THEN <<d>>
      ELSE CHOOSE r \in { Append(ToBase36(q), d) :
                          q \in { [hi |-> qhi, lo |-> qlo] } } : TRUE

simpleHash(str) ==
  CHOOSE r \in
    { ToBase36(v) :
      v \in { HashLoop(s, 1, Len(s), [hi |-> FNV_OFFSET_HI, lo |-> FNV_OFFSET_LO]) :
              s \in {str} } } : TRUE

\* ------------------------------------------------------------------------
\* generateUrlsHash: [...urls].sort().join('|') hashed
\* ------------------------------------------------------------------------
RECURSIVE StrLess(_, _)
StrLess(a, b) ==
  IF b = <<>> THEN FALSE
  ELSE IF a = <<>> THEN TRUE
  ELSE IF Head(a) # Head(b) THEN Head(a) < Head(b)
  ELSE StrLess(Tail(a), Tail(b))

\* u put before the first element of the sorted list that is greater than it
InsertSorted(u, sorted) ==
  IF \E k \in 1..Len(sorted) : StrLess(u, sorted[k])
  THEN LET k == CHOOSE k \in 1..Len(sorted) :
                  /\ StrLess(u, sorted[k])
                  /\ k = 1 \/ ~StrLess(u, sorted[k - 1])
       IN  SubSeq(sorted, 1, k - 1) \o <<u>> \o SubSeq(sorted, k, Len(sorted))
  ELSE Append(sorted, u)

SortUrlsNone(urls) == urls
\* the elements i..j of urls inserted, last first, into the sorted list acc
\* (the range is halved so that a long list needs no deep recursion)
RECURSIVE SortFrom(_, _, _, _)
SortFrom(urls, i, j, acc) ==
  IF i > j THEN acc
  ELSE IF i = j THEN InsertSorted(urls[i], acc)
  ELSE CHOOSE r \in { SortFrom(urls, i, (i + j) \div 2, a) :
                      a \in { SortFrom(urls, ((i + j) \div 2) + 1, j, acc) } } : TRUE

SortUrls(urls) == SortFrom(urls, 1, Len(urls), <<>>)

\* (the list is halved so that a long list needs no deep recursion)
RECURSIVE JoinUrls(_)
JoinUrls(urls) ==
  IF urls = <<>> THEN <<>>
  ELSE IF Len(urls) = 1 THEN Head(urls)
  ELSE JoinUrls(SubSeq(urls, 1, Len(urls) \div 2)) \o <<SEPARATOR>>
       \o JoinUrls(SubSeq(urls, (Len(urls) \div 2) + 1, Len(urls)))

\* (sortedUrls \in {...} names the sorted list, so that it is computed once)
generateUrlsHash(urls) ==
  CHOOSE r \in { simpleHash(JoinUrls(sortedUrls)) :
                 sortedUrls \in { SortUrls(urls) } } : TRUE

\* new URL(url).hostname, or the raw string when the URL does not parse.
\* A request URL is [host |-> h, raw |-> s]: host is Nil for a malformed one.
extractDomain(url) == IF url.host # Nil THEN url.host ELSE url.raw

generateCacheKey(domain, urlsHash) == <<domain, urlsHash>>


\* ------------------------------------------------------------------------
\* Cache primitives over localStorage.
\* store: the cache entries of localStorage, a function from cache key to
\*        the parsed CachedAnalysis, or to Garbled for a value that
\*        JSON.parse rejects; meta: the metadata record, NoMeta while none
\*        has been persisted.
\* ------------------------------------------------------------------------
Min(a, b) == IF a < b THEN a ELSE b
Max(a, b) == IF a > b THEN a ELSE b

\* a stored value that does not parse
Garbled == [domain |-> Nil, urlsHash |-> <<>>, timestamp |-> Unset,
            ttl |-> Unset, sitewide |-> Unset, seo |-> Unset]

\* JSON.parse(data) succeeds
Parses(entry) == entry # Garbled

getMetadata(m, t) ==
  IF m # NoMeta THEN m ELSE [lastCleanup |-> t, entries |-> 0]

\* updates is a function on a subset of {"lastCleanup", "entries"};
\* writeOk: whether localStorage.setItem succeeds (a failure is swallowed)
updateMetadata(m, t, updates, writeOk) ==
  LET current == getMetadata(m, t)
      updated == [f \in {"lastCleanup", "entries"} |->
                    IF f \in DOMAIN updates THEN updates[f] ELSE current[f]]
  IN  IF writeOk THEN updated ELSE m

RemoveKeys(st, keys) == [k \in (DOMAIN st) \ keys |-> st[k]]

PutKey(st, key, entry) ==
  [k \in (DOMAIN st) \cup {key} |-> IF k = key THEN entry ELSE st[k]]

ExpiredNever(entry, t) == FALSE
Expired(entry, t) == t - entry.timestamp > entry.ttl

\* the subsets of S with j elements
RECURSIVE KSubsets(_, _)
KSubsets(S, j) ==
  IF j = 0 THEN {{}}
  ELSE IF j >= Cardinality(S) THEN {S}
  ELSE UNION { { X \cup {x} : X \in KSubsets(S \ {x}, j - 1) } : x \in S }

\* The sets of keys that entries.sort((a, b) => a.timestamp - b.timestamp)
\* can put in the first n places, entries being the values that parse:
\* all the entries older than the one in place n, and as many of those
\* with its timestamp as are needed (ties fall in localStorage.key order).
OldestSets(st, n) ==
  LET entries == { k \in DOMAIN st : Parses(st[k]) }
      count == Min(n, Cardinality(entries))
      Older(k) == { j \in entries : st[j].timestamp < st[k].timestamp }
      Same(k) == { j \in entries : st[j].timestamp = st[k].timestamp }
      pivots == { k \in entries :
                    /\ Cardinality(Older(k)) < count
                    /\ count <= Cardinality(Older(k)) + Cardinality(Same(k)) }
  IN  IF count <= 0 THEN {{}}
      ELSE UNION { { Older(p) \cup X :
                     X \in KSubsets(Same(p), count - Cardinality(Older(p))) } :
                   p \in pivots }

\* now - metadata.lastCleanup < 60 * 60 * 1000
ThrottledNever(metadata, t) == FALSE
Throttled(metadata, t) == t - metadata.lastCleanup < CLEANUP_INTERVAL_MS

cleanupExpiredEntriesKeepsAll(st, m, t, writeOk) ==
  IF Throttled(getMetadata(m, t), t)
  THEN [store |-> st, meta |-> m, scanned |-> FALSE]
  ELSE [store |-> st,
        meta  |-> updateMetadata(m, t,
                    [f \in {"lastCleanup", "entries"} |->
                       IF f = "lastCleanup" THEN t ELSE getMetadata(m, t).entries],
                    writeOk),
        scanned |-> TRUE]

\* scanned: the throttle let the sweep through
cleanupExpiredEntries(st, m, t, writeOk) ==
  LET metadata == getMetadata(m, t)
      keysToRemove == { k \in DOMAIN st : ~Parses(st[k]) \/ Expired(st[k], t) }
      removedCount == Cardinality(keysToRemove)
  IN  IF Throttled(metadata, t)
      THEN [store |-> st, meta |-> m, scanned |-> FALSE]
      ELSE [store |-> RemoveKeys(st, keysToRemove),
            meta  |-> updateMetadata(m, t,
                        [f \in {"lastCleanup", "entries"} |->
                           IF f = "lastCleanup" THEN t
                           ELSE Max(0, metadata.entries - removedCount)],
                        writeOk),
            scanned |-> TRUE]

enforceCacheLimitNever(st, m, t, writeOk) == { [store |-> st, meta |-> m] }

\* the set of outcomes: one per order the sort can give to equal timestamps
enforceCacheLimit(st, m, t, writeOk) ==
  LET metadata == getMetadata(m, t)
      entries == { k \in DOMAIN st : Parses(st[k]) }
      toRemove == Cardinality(entries) - MAX_CACHE_SIZE
  IN  IF metadata.entries <= MAX_CACHE_SIZE \/ toRemove <= 0
      THEN { [store |-> st, meta |-> m] }
      ELSE { [store |-> RemoveKeys(st, ks),
              meta  |-> updateMetadata(m, t,
                          [f \in {"entries"} |-> MAX_CACHE_SIZE], writeOk)] :
             ks \in OldestSets(st, toRemove) }

clearOldestEntriesNone(st, count) == { st }
clearOldestEntries(st, count) ==
  { RemoveKeys(st, ks) : ks \in OldestSets(st, count) }

\* try { ... } catch (e) { console.warn(...) }: whether an exception thrown
\* inside the try leaves the method.  Every catch block of the service logs
\* and goes on.
EscapesAlways(threw) == threw
Escapes(threw) == FALSE

\* How the storage calls of one getAnalysis call end: "ok", "read"
\* (localStorage.getItem throws), "remove" (localStorage.removeItem throws)
ReadOutcomes == { "ok", "read", "remove" }

\* CacheService.getAnalysis: the lookup itself (the deferred cleanup it
\* schedules is the action RunCleanup).  raised: an exception leaves the call.
getAnalysis(st, t, domainUrl, urls, io) ==
  LET cacheKey == generateCacheKey(extractDomain(domainUrl),
                                   generateUrlsHash(urls))
  IN  IF io = "read" \/ cacheKey \notin DOMAIN st
      THEN [result |-> NoResult, store |-> st, raised |-> Escapes(io = "read")]
      ELSE IF ~Parses(st[cacheKey])
      THEN [result |-> NoResult, store |-> st, raised |-> Escapes(TRUE)]
      ELSE IF Expired(st[cacheKey], t)
      THEN [result |-> NoResult,
            store |-> IF io = "remove" THEN st ELSE RemoveKeys(st, {cacheKey}),
            raised |-> Escapes(io = "remove")]
      ELSE [result |-> [sitewide |-> st[cacheKey].sitewide,
                        seo |-> st[cacheKey].seo],
            store |-> st, raised |-> Escapes(FALSE)]

\* How the writes of one setAnalysis call end: the entry write
\* ("ok", "quota": QuotaExceededError, "error": any other failure), the
\* retry after a quota failure, and the metadata write.
WriteOutcomes ==
  { [first |-> "ok", retry |-> TRUE, metaOk |-> TRUE],
    [first |-> "ok", retry |-> TRUE, metaOk |-> FALSE],
    [first |-> "quota", retry |-> TRUE, metaOk |-> TRUE],
    [first |-> "quota", retry |-> FALSE, metaOk |-> TRUE],
    [first |-> "error", retry |-> TRUE, metaOk |-> TRUE] }

setAnalysisDropped(st, m, t, domainUrl, urls, sitewideAnalysis, seoAnalysis, ttl, w, cleared) ==
  [store |-> st, meta |-> m, scheduled |-> FALSE, attempts |-> 1,
   raised |-> FALSE]

\* CacheService.setAnalysis for one way w its writes end and one result
\* cleared of clearOldestEntries: the store and metadata it leaves, whether
\* enforceCacheLimit was scheduled, and the number of attempts to write
\* the entry.
setAnalysis(st, m, t, domainUrl, urls, sitewideAnalysis, seoAnalysis, ttl, w, cleared) ==
  LET domain == extractDomain(domainUrl)
      urlsHash == generateUrlsHash(urls)
      cacheKey == generateCacheKey(domain, urlsHash)
      cacheEntry == [domain |-> domain, urlsHash |-> urlsHash,
                     timestamp |-> t, ttl |-> ttl,
                     sitewide |-> sitewideAnalysis, seo |-> seoAnalysis]
  IN  IF w.first = "ok"
      THEN [store |-> PutKey(st, cacheKey, cacheEntry),
            meta |-> updateMetadata(m, t,
                       [f \in {"entries"} |-> getMetadata(m, t).entries + 1],
                       w.metaOk),
            scheduled |-> TRUE, attempts |-> 1, raised |-> Escapes(~w.metaOk)]
      ELSE IF w.first = "quota"
      THEN [store |-> IF w.retry THEN PutKey(cleared, cacheKey, cacheEntry)
                      ELSE cleared,
            meta |-> m, scheduled |-> FALSE, attempts |-> 2,
            raised |-> Escapes(TRUE)]
      ELSE [store |-> st, meta |-> m, scheduled |-> FALSE, attempts |-> 1,
            raised |-> Escapes(TRUE)]

\* How the storage calls of one clearAnalysis or clearCache call end:
\* whether localStorage.removeItem succeeds, and the metadata write.
RemoveOutcomes ==
  { [remove |-> TRUE, metaOk |-> TRUE],
    [remove |-> FALSE, metaOk |-> TRUE],
    [remove |-> TRUE, metaOk |-> FALSE] }

clearAnalysisNoFloor(st, m, t, domainUrl, urls, io) ==
  LET cacheKey == generateCacheKey(extractDomain(domainUrl),
                                   generateUrlsHash(urls))
  IN  [store |-> RemoveKeys(st, {cacheKey}),
       meta |-> updateMetadata(m, t,
                  [f \in {"entries"} |-> getMetadata(m, t).entries - 1],
                  io.metaOk),
       raised |-> FALSE]

\* CacheService.clearAnalysis
clearAnalysis(st, m, t, domainUrl, urls, io) ==
  LET cacheKey == generateCacheKey(extractDomain(domainUrl),
                                   generateUrlsHash(urls))
  IN  IF ~io.remove
      THEN [store |-> st, meta |-> m, raised |-> Escapes(TRUE)]
      ELSE [store |-> RemoveKeys(st, {cacheKey}),
            meta |-> updateMetadata(m, t,
                       [f \in {"entries"} |-> Max(0, getMetadata(m, t).entries - 1)],
                       io.metaOk),
            raised |-> Escapes(~io.metaOk)]

\* The UTF-16 code units of the string literals the cache keys are built
\* from and matched against.
CACHE_PREFIX == "seo-analyzer-cache-v1"
CodeUnits(s) ==
  CASE s = "seo-analyzer-cache-v1" -> <<115, 101, 111, 45, 97, 110, 97, 108, 121, 122, 101, 114, 45, 99, 97, 99, 104, 101, 45, 118, 49>>
    [] s = "metadata" -> <<109, 101, 116, 97, 100, 97, 116, 97>>
    [] s = "a.com" -> <<97, 46, 99, 111, 109>>
    [] s = "b.com" -> <<98, 46, 99, 111, 109>>
    [] s = "v1" -> <<118, 49>>
    [] s = "x.org" -> <<120, 46, 111, 114, 103>>
    [] s = "*" -> <<42>>

\* a base-36 digit as the character toString(36) writes: 0-9, a-z
DigitChar(d) == IF d < 10 THEN 48 + d ELSE 87 + d

\* `${CACHE_PREFIX}:${domain}:${urlsHash}` as code units
KeyText(key) ==
  CodeUnits(CACHE_PREFIX) \o <<58>> \o CodeUnits(key[1]) \o <<58>>
    \o [i \in 1..Len(key[2]) |-> DigitChar(key[2][i])]

\* `${CACHE_PREFIX}:metadata`
MetadataKeyText == CodeUnits(CACHE_PREFIX) \o <<58>> \o CodeUnits("metadata")

\* String.prototype.includes
Includes(text, part) ==
  \E i \in 0..(Len(text) - Len(part)) :
    \A j \in 1..Len(part) : text[i + j] = part[j]

\* pattern === '*' || key.includes(pattern)
Matches(text, pattern) == pattern = "*" \/ Includes(text, CodeUnits(pattern))

clearCacheEverything(st, m, t, pattern, io) ==
  [store |-> <<>>,
   meta |-> [lastCleanup |-> t, entries |-> 0],
   raised |-> FALSE]

\* CacheService.clearCache: every matching key is removed, the metadata
\* key among them, then the metadata is written anew
clearCache(st, m, t, pattern, io) ==
  LET keysToRemove == { k \in DOMAIN st : Matches(KeyText(k), pattern) }
      left == IF io.remove /\ Matches(MetadataKeyText, pattern) THEN NoMeta ELSE m
  IN  [store |-> IF io.remove THEN RemoveKeys(st, keysToRemove) ELSE st,
       meta |-> updateMetadata(left, t,
                  [f \in {"lastCleanup", "entries"} |->
                     IF f = "lastCleanup" THEN t ELSE 0],
                  io.metaOk),
       raised |-> Escapes(~io.remove \/ ~io.metaOk)]

\* CacheService.getStats: every stored value is counted, the timestamps are
\* those of the values that parse (totalSize, the length of the serialized
\* values, is left out).  Timestamps are positive, so !oldestTimestamp
\* holds for null only.  seen: the keys read before a storage call failed,
\* all of them when none did.
getStats(st, seen) ==
  LET parsed == { k \in seen : Parses(st[k]) }
      stamps == { st[k].timestamp : k \in parsed }
  IN  [entries |-> Cardinality(seen),
       oldestEntry |-> IF stamps = {} THEN Unset
                       ELSE CHOOSE a \in stamps : \A b \in stamps : a <= b,
       newestEntry |-> IF stamps = {} THEN Unset
                       ELSE CHOOSE a \in stamps : \A b \in stamps : a >= b,
       raised |-> Escapes(seen # DOMAIN st)]


\* a storage failure changed what this getAnalysis call did: the read of a
\* stored entry threw, or the removal of an expired one
ReadFailed(st, t, domainUrl, urls, io) ==
  LET cacheKey == generateCacheKey(extractDomain(domainUrl),
                                   generateUrlsHash(urls))
  IN  /\ cacheKey \in DOMAIN st
      /\ \/ io = "read"
         \/ io = "remove" /\ Parses(st[cacheKey]) /\ Expired(st[cacheKey], t)

\* no storage call of this setAnalysis call threw; the entry was written
WriteClean(w) == w.first = "ok" /\ w.metaOk
Wrote(w) == w.first = "ok" \/ (w.first = "quota" /\ w.retry)

\* ------------------------------------------------------------------------
\* Pipeline state (App component)
\* ------------------------------------------------------------------------
VARIABLES
  appState,        \* 'idle' | 'loading' | 'results' | 'error'
  error,           \* the error message shown, Nil when none
  pipelineStages,  \* stage id -> PipelineStage
  activityLog,     \* sequence of ActivityLogEntry
  partialResults,  \* PartialResults
  aborted,         \* abortControllerRef: "none" (null), else its signal: "fresh"/"aborted"
  pc,              \* the await at which handleSubmit is suspended
  locals,          \* handleSubmit's local variables
  audit,           \* generateSitewideAudit call of Promise.all: idle/inflight/ok
  seo,             \* generateSeoAnalysis call of Promise.all: idle/inflight/ok
  stale,           \* collaborator calls still in flight whose run has ended
  rafQueue,        \* crawl progress callbacks waiting for an animation frame
  store,           \* cache entries in localStorage
  meta,            \* cache metadata in localStorage
  pendingCleanup,  \* cleanupExpiredEntries tasks queued by setTimeout
  pendingEnforce,  \* enforceCacheLimit tasks queued by setTimeout
  now,             \* Date.now()
  ticks,           \* number of clock advances so far
  runNo,           \* number of runs started
  cbCount,         \* progress callbacks delivered in the current run
  calls,           \* per run: how often each collaborator and cache call was made
  given,           \* per run: the inputs handed to actionplan and summary, the
                   \* stage statuses at the call of setAnalysis, the URLs
                   \* handed to the analyses, to getAnalysis and to setAnalysis
  trace,           \* per run: the status changes applied, in order
  last,            \* the latest cache call or cache task, with what it was given and gave
  written,         \* every entry written so far: its key and createdAt
  lastScan,        \* the latest sweep that scanned: when, and whether lastCleanup was saved
  ops,             \* number of cache calls made directly (not by a run)
  faults,          \* number of storage calls that failed in them, or in the current run
  hashInput,       \* a URL list handed to generateUrlsHash
  hashOutput,      \* what generateUrlsHash returned for it
  hashFirst        \* the list before any reordering, and what was returned for it

vars == <<appState, error, pipelineStages, activityLog, partialResults,
          aborted, pc, locals, audit, seo, stale, rafQueue, store, meta,
          pendingCleanup, pendingEnforce, now, ticks, runNo, cbCount,
          calls, given, trace, last, written, lastScan, ops, faults,
          hashInput, hashOutput, hashFirst>>

\* what the pipeline leaves alone: the record of the direct cache calls
apiVars == <<last, written, lastScan, ops, faults>>
hashVars == <<hashInput, hashOutput, hashFirst>>

CacheKeyOf(domainUrl, urls) ==
  generateCacheKey(extractDomain(domainUrl), generateUrlsHash(urls))

\* the count of failed storage calls after a call that was clean, or was not
Failed(clean) == IF clean THEN faults ELSE faults + 1

NoKey == <<Nil, <<>>>>
NoFirst == [urls |-> <<>>, hash |-> <<>>]
NoStats == [entries |-> Unset, oldestEntry |-> Unset, newestEntry |-> Unset]
NoScan == [at |-> Unset, saved |-> FALSE]
\* what a lookup or a stats call keeps of the call made just before it
NoPreceding ==
  [op |-> "none", key |-> NoKey, urls |-> <<>>, payload |-> NoResult,
   ttl |-> Unset, clean |-> TRUE, result |-> NoResult, before |-> <<>>,
   at |-> Unset]
Preceding(c) ==
  [op |-> c.op, key |-> c.key, urls |-> c.urls, payload |-> c.payload,
   ttl |-> c.ttl, clean |-> c.clean, result |-> c.result, before |-> c.before,
   at |-> c.at]
\* a cache call: op is its name; clean: every storage call it made succeeded
NoCall ==
  [op |-> "none", key |-> NoKey, urls |-> <<>>, pattern |-> Nil,
   payload |-> NoResult, ttl |-> Unset, first |-> Nil, retry |-> FALSE,
   clean |-> TRUE, result |-> NoResult, stats |-> NoStats, attempts |-> 0,
   scheduled |-> FALSE, scanned |-> FALSE, raised |-> FALSE,
   before |-> <<>>, metaBefore |-> NoMeta, at |-> Unset, sinceScan |-> NoScan,
   after |-> NoPreceding]

StageOrder ==
  <<"crawl", "rank", "competitor", "technical", "content", "actionplan", "summary">>
StageIds == { StageOrder[i] : i \in 1..Len(StageOrder) }

\* PIPELINE_STAGE_DEFINITIONS.map(s => ({...s, status: 'pending', progress: 0}))
PIPELINE_STAGE_DEFINITIONS ==
  [s \in StageIds |->
     [status |-> "pending", progress |-> 0, currentTask |-> Nil,
      startTime |-> Nil, endTime |-> Nil,
      itemsProcessed |-> Unset, totalItems |-> Unset]]

EmptyResults ==
  [urlsDiscovered |-> Unset, urlsAnalyzed |-> Unset, sitewideAnalysis |-> Unset,
   seoAnalysis |-> Unset, actionPlan |-> Unset, executiveSummary |-> Unset]

NoCalls ==
  [c \in {"crawl", "rank", "audit", "seo", "plan", "summary", "lookup", "store"} |-> 0]

NoInputs == [plan |-> NoResult, summary |-> NoResult,
             store |-> [s \in StageIds |-> Nil],
             analysis |-> <<>>, looked |-> <<>>, stored |-> <<>>]

NoLocals == [url |-> [host |-> Nil, raw |-> Nil], urls |-> <<>>,
             cached |-> NoResult, sitewide |-> Unset, seo |-> Unset,
             actionPlan |-> Unset]

\* { ...s, ...updates }
Merge(rec, updates) ==
  [f \in DOMAIN rec |-> IF f \in DOMAIN updates THEN updates[f] ELSE rec[f]]

\* an update that would be merged into every stage, addressed or not
updateStageAll(stages, stageId, updates) ==
  [s \in DOMAIN stages |-> Merge(stages[s], updates)]

\* updateStage: prev.map(s => s.id === stageId ? { ...s, ...updates } : s)
updateStage(stages, stageId, updates) ==
  [s \in DOMAIN stages |->
     IF s = stageId THEN Merge(stages[s], updates) ELSE stages[s]]

\* the status change an updateStage call makes, if it makes one
StatusChange(stages, stageId, updates) ==
  IF /\ stageId \in DOMAIN stages
     /\ "status" \in DOMAIN updates
     /\ updates.status # stages[stageId].status
  THEN << <<stageId, stages[stageId].status, updates.status>> >>
  ELSE <<>>

\* a segment's updateStage calls, applied in call order;
\* ups is a sequence of <<stageId, updates>>, ps is [stages, trace].
\* (p \in {ps} names the value of ps, so that it is computed once.)
RECURSIVE ApplyUpdates(_, _)
ApplyUpdates(ps, ups) ==
  IF ups = <<>> THEN ps
  ELSE CHOOSE r \in
         { ApplyUpdates(
             [stages |-> updateStage(p.stages, Head(ups)[1], Head(ups)[2]),
              trace  |-> p.trace \o StatusChange(p.stages, Head(ups)[1], Head(ups)[2])],
             Tail(ups)) : p \in {ps} } : TRUE

\* MarkRunningAsError marking only the first running stage
RECURSIVE MarkFirstRunningAsError(_, _)
MarkFirstRunningAsError(ps, i) ==
  IF i > Len(StageOrder) THEN ps
  ELSE IF ps.stages[StageOrder[i]].status = "running"
  THEN ApplyUpdates(ps, << <<StageOrder[i], [status |-> "error"]>> >>)
  ELSE MarkFirstRunningAsError(ps, i + 1)

\* MarkRunningAsError marking nothing
MarkNoStageAsError(ps, i) == ps

\* MarkRunningAsError marking every stage that is not complete
RECURSIVE MarkUnfinishedAsError(_, _)
MarkUnfinishedAsError(ps, i) ==
  IF i > Len(StageOrder) THEN ps
  ELSE CHOOSE r \in
         { MarkUnfinishedAsError(
             IF p.stages[StageOrder[i]].status # "complete"
             THEN ApplyUpdates(p, << <<StageOrder[i], [status |-> "error"]>> >>)
             ELSE p,
             i + 1) : p \in {ps} } : TRUE

\* MarkRunningAsError that also clears what the stage has reported
RECURSIVE MarkRunningAsErrorCleared(_, _)
MarkRunningAsErrorCleared(ps, i) ==
  IF i > Len(StageOrder) THEN ps
  ELSE CHOOSE r \in
         { MarkRunningAsErrorCleared(
             IF p.stages[StageOrder[i]].status = "running"
             THEN ApplyUpdates(p, << <<StageOrder[i],
                    [status |-> "error", progress |-> 0, currentTask |-> Nil,
                     itemsProcessed |-> Unset, totalItems |-> Unset]>> >>)
             ELSE p,
             i + 1) : p \in {ps} } : TRUE

\* the catch block: prev.map(s => s.status === 'running' ? {...s, status: 'error'} : s)
RECURSIVE MarkRunningAsError(_, _)
MarkRunningAsError(ps, i) ==
  IF i > Len(StageOrder) THEN ps
  ELSE CHOOSE r \in
         { MarkRunningAsError(
             IF p.stages[StageOrder[i]].status = "running"
             THEN ApplyUpdates(p, << <<StageOrder[i], [status |-> "error"]>> >>)
             ELSE p,
             i + 1) : p \in {ps} } : TRUE

\* addLog
LogEntry(message, type, stage) ==
  [timestamp |-> Stamp(now), message |-> message, type |-> type, stage |-> stage]

\* addLogs keeping only the newest entries: [...entries]
addLogsReplacing(log, entries) ==
  [i \in 1..Len(entries) |->
     [timestamp |-> Stamp(now), message |-> entries[i][1],
      type |-> entries[i][2], stage |-> entries[i][3]]]

RECURSIVE addLogs(_, _)
addLogs(log, entries) ==
  IF entries = <<>> THEN log
  ELSE addLogs(Append(log, LogEntry(Head(entries)[1], Head(entries)[2], Head(entries)[3])),
               Tail(entries))


\* ------------------------------------------------------------------------
\* Inputs
\* ------------------------------------------------------------------------
U1 == <<97>>
U2 == <<98>>
CrawlResults == { <<>>, <<U1>>, <<U2, U1>> }
\* a site whose sitemap lists more URLs than are analysed: 97, 98, 99, ...
ManyUrls == [i \in 1..MaxDiscovered |-> <<96 + i>>]
LargeSite == [host |-> "big.com", raw |-> "https://big.com/"]
\* what crawlSitemap may resolve with for the site of the request
Discovered(url) == IF url = LargeSite THEN { ManyUrls } ELSE CrawlResults
SitemapInputs == { "", "not a url", "https://a.com/sitemap.xml" }
RequestUrls == { [host |-> "a.com", raw |-> "https://a.com/"] }
\* The structured results are opaque to the pipeline: every collaborator
\* call returns a value of its own, told apart by kind and by run.
SitewideValues(n) == { n }
SeoValues(n) == { 100 + n }
PlanValues(n) == { 200 + n }
SummaryValues(n) == { 300 + n }
CrawlProgressValues == { [count |-> 1, total |-> 2] }
AuditMessages == { "Analyzing competitor sitemaps", "Auditing technical health" }
\* msg.toLowerCase().includes('competitor')
MentionsCompetitor(msg) == msg = "Analyzing competitor sitemaps"

Init ==
  /\ appState = "idle"
  /\ error = Nil
  /\ pipelineStages = PIPELINE_STAGE_DEFINITIONS
  /\ activityLog = <<>>
  /\ partialResults = EmptyResults
  /\ aborted = "none"
  /\ pc = "idle"
  /\ locals = NoLocals
  /\ audit = "idle"
  /\ seo = "idle"
  /\ stale = {}
  /\ rafQueue = <<>>
  /\ store = [k \in {} |-> NoResult]
  /\ meta = NoMeta
  /\ pendingCleanup = 0
  /\ pendingEnforce = 0
  /\ now = 0
  /\ ticks = 0
  /\ runNo = 0
  /\ cbCount = 0
  /\ calls = NoCalls
  /\ given = NoInputs
  /\ trace = <<>>
  /\ last = NoCall
  /\ written = {}
  /\ lastScan = NoScan
  /\ ops = 0
  /\ faults = 0
  /\ hashInput = <<>>
  /\ hashOutput = <<>>
  /\ hashFirst = NoFirst

cacheVars == <<store, meta, pendingCleanup, pendingEnforce>>

\* A setTimeout(f, 0) task is due at once: it runs before any event that
\* arrives later (a collaborator settling, a progress report, an animation
\* frame, a click), and before the clock moves on.
NoTimerDue == pendingCleanup = 0 /\ pendingEnforce = 0
clockVars == <<now, ticks>>
parVars == <<audit, seo, stale>>

\* Catch resetting the partial results
CatchClearsResults(ps, log, results, errorMessage) ==
  LET failedPs == MarkRunningAsError(ps, 1)
  IN  /\ error' = errorMessage
      /\ partialResults' = EmptyResults
      /\ activityLog' = addLogs(log, << <<"Analysis failed", "error", Nil>> >>)
      /\ pipelineStages' = failedPs.stages
      /\ trace' = failedPs.trace
      /\ appState' = "error"
      /\ pc' = "failed"

\* Catch without setAppState('error')
CatchStaysLoading(ps, log, results, errorMessage) ==
  LET failedPs == MarkRunningAsError(ps, 1)
  IN  /\ error' = errorMessage
      /\ partialResults' = results
      /\ activityLog' = addLogs(log, << <<"Analysis failed", "error", Nil>> >>)
      /\ pipelineStages' = failedPs.stages
      /\ trace' = failedPs.trace
      /\ appState' = appState
      /\ pc' = "failed"

\* the catch block of handleSubmit, entered with the stages/trace ps and the
\* log that the segment has produced so far
\* (it leaves the partial results as the segment has set them: results)
Catch(ps, log, results, errorMessage) ==
  LET failedPs == MarkRunningAsError(ps, 1)
  IN  /\ error' = errorMessage
      /\ partialResults' = results
      /\ activityLog' = addLogs(log, << <<"Analysis failed", "error", Nil>> >>)
      /\ pipelineStages' = failedPs.stages
      /\ trace' = failedPs.trace
      /\ appState' = "error"
      /\ pc' = "failed"

Running(task) == [status |-> "running", startTime |-> Stamp(now), currentTask |-> task]
Complete == [status |-> "complete", progress |-> 100, endTime |-> Stamp(now)]

\* ------------------------------------------------------------------------
\* The updateStage calls of each segment of handleSubmit, in call order
\* ------------------------------------------------------------------------
CrawlStartUpdates ==
  << <<"crawl", Running("Initializing parallel crawler...")>> >>

CrawlDoneUpdates ==
  << <<"crawl", Complete>> >>

\* FastForwardUpdates leaving content out of the fast-forward
FastForwardWithoutContent ==
  << <<"rank", Complete>>, <<"competitor", Complete>>,
     <<"technical", Complete>>,
     <<"actionplan", Running("Creating implementation roadmap...")>> >>

\* ['rank', 'competitor', 'technical', 'content'].forEach(... 'complete' ...),
\* then actionplan is started
FastForwardUpdates ==
  << <<"rank", Complete>>, <<"competitor", Complete>>,
     <<"technical", Complete>>, <<"content", Complete>>,
     <<"actionplan", Running("Creating implementation roadmap...")>> >>

\* FanOutUpdates starting competitor before rank is complete
FanOutBeforeRankDone ==
  << <<"rank", Running("Scoring URL importance...")>>,
     <<"competitor", Running("Analyzing competitor sitemaps...")>>,
     <<"rank", Complete>>,
     <<"technical", Running("Auditing technical health...")>>,
     <<"content", Running("Evaluating content quality...")>> >>

FanOutUpdates ==
  << <<"rank", Running("Scoring URL importance...")>>,
     <<"rank", Complete>>,
     <<"competitor", Running("Analyzing competitor sitemaps...")>>,
     <<"technical", Running("Auditing technical health...")>>,
     <<"content", Running("Evaluating content quality...")>> >>

\* JoinUpdates starting actionplan without completing content
JoinWithoutContent ==
  << <<"competitor", Complete>>, <<"technical", Complete>>,
     <<"actionplan", Running("Creating daily action items...")>> >>

\* the updates of the fan-in made before the await of setAnalysis, and all
\* of them
ParallelDoneUpdatesNone == <<>>
ParallelDoneUpdates ==
  << <<"competitor", Complete>>, <<"technical", Complete>>,
     <<"content", Complete>> >>

JoinUpdates ==
  ParallelDoneUpdates
    \o << <<"actionplan", Running("Creating daily action items...")>> >>

PlanDoneUpdates(task) ==
  << <<"actionplan", Complete>>, <<"summary", Running(task)>> >>

SummaryDoneUpdates ==
  << <<"summary", Complete>> >>

\* SubmitRejected after the run's initialisation: the pipeline reset, the
\* first log line written and the crawler called
SubmitRejectedLate ==
  /\ NoTimerDue
  /\ UNCHANGED <<apiVars, hashVars>>
  /\ appState = "idle"
  /\ \E sitemapUrl \in SitemapInputs :
       /\ sitemapUrl # "https://a.com/sitemap.xml"
       /\ error' = IF sitemapUrl = "" THEN "Please enter your sitemap.xml URL."
                   ELSE "Please enter a valid sitemap URL"
  /\ appState' = "error"
  /\ pipelineStages' =
       ApplyUpdates([stages |-> PIPELINE_STAGE_DEFINITIONS, trace |-> <<>>],
                    CrawlStartUpdates).stages
  /\ activityLog' = addLogs(<<>>, << <<"Starting sitemap discovery...", "info", "crawl">> >>)
  /\ calls' = [calls EXCEPT !.crawl = 1]
  /\ UNCHANGED <<partialResults, aborted, pc,
                 locals, rafQueue, runNo, cbCount, given, trace>>
  /\ UNCHANGED <<cacheVars, clockVars, parVars>>

\* handleSubmit with a missing or unparsable sitemap URL
SubmitRejected ==
  /\ NoTimerDue
  /\ UNCHANGED <<apiVars, hashVars>>
  /\ appState = "idle"
  /\ \E sitemapUrl \in SitemapInputs :
       /\ sitemapUrl # "https://a.com/sitemap.xml"
       /\ error' = IF sitemapUrl = "" THEN "Please enter your sitemap.xml URL."
                   ELSE "Please enter a valid sitemap URL"
  /\ appState' = "error"
  /\ UNCHANGED <<pipelineStages, activityLog, partialResults, aborted, pc,
                 locals, rafQueue, runNo, cbCount, calls, given, trace>>
  /\ UNCHANGED <<cacheVars, clockVars, parVars>>

\* handleSubmit up to the await of crawlSitemap, for a request to one of sites
SubmitTo(sites) ==
  /\ NoTimerDue
  /\ UNCHANGED <<last, written, lastScan, ops, hashVars>>
  /\ faults' = 0
  /\ appState = "idle"
  /\ pc = "idle"
  /\ runNo < MaxRuns
  /\ \E url \in sites : locals' = [NoLocals EXCEPT !.url = url]
  /\ aborted' = "fresh"
  /\ appState' = "loading"
  /\ error' = Nil
  /\ LET ps == ApplyUpdates(
                 [stages |-> PIPELINE_STAGE_DEFINITIONS, trace |-> <<>>],
                 CrawlStartUpdates)
     IN  /\ pipelineStages' = ps.stages
         /\ trace' = ps.trace
  /\ activityLog' = addLogs(<<>>, << <<"Starting sitemap discovery...", "info", "crawl">> >>)
  /\ partialResults' = EmptyResults
  /\ runNo' = runNo + 1
  /\ cbCount' = 0
  /\ calls' = [NoCalls EXCEPT !.crawl = 1]
  /\ given' = NoInputs
  /\ pc' = "crawl"
  /\ UNCHANGED <<rafQueue>>
  /\ UNCHANGED <<cacheVars, clockVars, parVars>>

Submit == SubmitTo(RequestUrls)

\* a submission for the large site
SubmitLarge == SubmitTo({LargeSite})

\* the crawler reports progress: the update is deferred to an animation frame
CrawlProgress ==
  /\ NoTimerDue
  /\ UNCHANGED <<apiVars, hashVars>>
  /\ pc = "crawl"
  /\ cbCount < MaxCallbacks
  /\ \E progress \in CrawlProgressValues : rafQueue' = Append(rafQueue, progress)
  /\ cbCount' = cbCount + 1
  /\ UNCHANGED <<appState, error, pipelineStages, activityLog, partialResults,
                 aborted, pc, locals, runNo, calls, given, trace>>
  /\ UNCHANGED <<cacheVars, clockVars, parVars>>

RECURSIVE CrawlUpdates(_)
CrawlUpdates(queue) ==
  IF queue = <<>> THEN <<>>
  ELSE << <<"crawl",
            [progress |-> IF Head(queue).total > 0
                          THEN (Head(queue).count * 100) \div Head(queue).total
                          ELSE 0,
             itemsProcessed |-> Head(queue).count,
             totalItems |-> Head(queue).total,
             currentTask |-> "Processing sitemap..."]>> >>
       \o CrawlUpdates(Tail(queue))

\* the animation frame runs the deferred crawl progress callbacks
AnimationFrame ==
  /\ NoTimerDue
  /\ UNCHANGED <<apiVars, hashVars>>
  /\ rafQueue # <<>>
  /\ LET ps == ApplyUpdates([stages |-> pipelineStages, trace |-> trace],
                            CrawlUpdates(rafQueue))
     IN  /\ pipelineStages' = ps.stages
         /\ trace' = ps.trace
  /\ rafQueue' = <<>>
  /\ UNCHANGED <<appState, error, activityLog, partialResults, aborted, pc,
                 locals, runNo, cbCount, calls, given>>
  /\ UNCHANGED <<cacheVars, clockVars, parVars>>

\* lines 1418-1444: the cache hit.  Fast-forward the four analysis stages,
\* publish the cached payloads, start actionplan, call createActionPlan.
FastForward(ps0, log0, urls, cached) ==
  /\ LET ps == ApplyUpdates(ps0, FastForwardUpdates)
     IN  /\ pipelineStages' = ps.stages
         /\ trace' = ps.trace
  /\ activityLog' = addLogs(log0,
       << <<"Cache hit! Using cached analysis...", "success", Nil>>,
          <<"Generating fresh action plan from cache...", "ai", "actionplan">> >>)
  /\ partialResults' = [EmptyResults EXCEPT
                          !.urlsDiscovered = Len(urls),
                          !.sitewideAnalysis = cached.sitewide,
                          !.seoAnalysis = cached.seo]
  /\ calls' = [calls EXCEPT !.lookup = @ + 1, !.plan = @ + 1]
  /\ given' = [given EXCEPT !.plan = cached, !.looked = urls]
  /\ pc' = "hitPlan"
  /\ UNCHANGED <<appState, error, audit, seo>>

\* rankUrls: the URLs it is given, ordered by estimated SEO value.  The
\* scoring heuristic is not part of the model: the order that comes back is
\* taken to be the reverse of the crawl's, so that it differs from it.
rankUrls(urls) == [i \in 1..Len(urls) |-> urls[Len(urls) + 1 - i]]

\* slice that keeps the whole list
sliceAll(seq, end) == seq

\* seq.slice(0, end)
slice(seq, end) == SubSeq(seq, 1, Min(Len(seq), end))

\* lines 1483-1536: the cache miss.  Rank, then start the three parallel
\* stages and the two calls of Promise.all.
RankAndFanOut(ps0, log0, urls) ==
  /\ LET ps == ApplyUpdates(ps0, FanOutUpdates)
     IN  /\ pipelineStages' = ps.stages
         /\ trace' = ps.trace
  /\ activityLog' = addLogs(log0,
       << <<"No valid cache found, running full analysis...", "info", Nil>>,
          <<"Prioritizing URLs by SEO value...", "info", "rank">>,
          <<"Ranked URLs", "success", "rank">>,
          <<"Starting parallel AI analysis engines...", "ai", Nil>> >>)
  /\ LET rankedUrls == rankUrls(urls)
         inputUrls == slice(rankedUrls, MAX_URLS_FOR_ANALYSIS)
     IN  /\ partialResults' = [partialResults EXCEPT
                                   !.urlsDiscovered = Len(urls),
                                   !.urlsAnalyzed = Len(inputUrls)]
         /\ given' = [given EXCEPT !.analysis = inputUrls, !.looked = urls]
  /\ calls' = [calls EXCEPT !.lookup = @ + 1, !.rank = @ + 1,
                            !.audit = @ + 1, !.seo = @ + 1]
  /\ audit' = "inflight"
  /\ seo' = "inflight"
  /\ pc' = "parallel"
  /\ UNCHANGED <<appState, error>>

\* NoUrlsFound never raising
NoUrlsFoundNever(urls) == FALSE

\* if (urlsFromSitemap.length === 0) throw ...
NoUrlsFound(urls) == Len(urls) = 0

\* crawlSitemap resolves.  Crawl is marked complete; with no URL the run
\* fails; otherwise getAnalysis runs (it has no await of its own, so the run
\* resumes with its result before any other task) and the run goes on to
\* the await of createActionPlan (hit) or of Promise.all (miss).
CrawlReturns ==
  /\ NoTimerDue
  /\ UNCHANGED <<last, written, lastScan, ops, hashVars>>
  /\ pc = "crawl"
  /\ \E urls \in Discovered(locals.url), io \in ReadOutcomes :
       LET ps == ApplyUpdates([stages |-> pipelineStages, trace |-> trace],
                              CrawlDoneUpdates)
           log == addLogs(activityLog, << <<"Discovered URLs", "success", "crawl">> >>)
           looked == getAnalysis(store, now, locals.url, urls, io)
           checking == addLogs(log, << <<"Checking for cached analysis...", "info", Nil>> >>)
       IN  IF NoUrlsFound(urls)
           THEN /\ Catch(ps, log, [partialResults EXCEPT !.urlsDiscovered = Len(urls)],
                         "Crawl complete, but no URLs were found.")
                /\ locals' = [locals EXCEPT !.urls = urls]
                /\ UNCHANGED <<store, pendingCleanup, calls, given, audit, seo,
                               faults>>
           ELSE /\ pendingCleanup' = pendingCleanup + 1
                /\ store' = looked.store
                /\ faults' = Failed(~ReadFailed(store, now, locals.url, urls, io))
                /\ locals' = [locals EXCEPT !.urls = urls, !.cached = looked.result]
                /\ IF looked.result # NoResult
                   THEN FastForward(ps, checking, urls, looked.result)
                   ELSE RankAndFanOut(ps, checking, urls)
  /\ UNCHANGED <<aborted, stale, rafQueue, meta, pendingEnforce, runNo, cbCount>>
  /\ UNCHANGED <<clockVars>>

\* crawlSitemap rejects
CrawlFails ==
  /\ NoTimerDue
  /\ UNCHANGED <<apiVars, hashVars>>
  /\ pc = "crawl"
  /\ Catch([stages |-> pipelineStages, trace |-> trace], activityLog,
           partialResults, "Failed to fetch sitemap")
  /\ UNCHANGED <<aborted, locals, rafQueue, runNo, cbCount,
                 calls, given>>
  /\ UNCHANGED <<cacheVars, clockVars, parVars>>



\* a progress callback: updateStage(stage, { currentTask: msg }); addLog(msg, 'ai', stage)
ProgressCallback(stageId, msg) ==
  /\ cbCount < MaxCallbacks
  /\ cbCount' = cbCount + 1
  /\ LET ps == ApplyUpdates([stages |-> pipelineStages, trace |-> trace],
                            << <<stageId, [currentTask |-> msg]>> >>)
     IN  /\ pipelineStages' = ps.stages
         /\ trace' = ps.trace
  /\ activityLog' = addLogs(activityLog, << <<msg, "ai", stageId>> >>)
  /\ UNCHANGED <<appState, error, partialResults, aborted, pc, locals,
                 rafQueue, runNo, calls, given>>
  /\ UNCHANGED <<cacheVars, clockVars, parVars>>

\* onProgress of generateSitewideAudit, of this run or of an ended one
AuditProgress ==
  /\ NoTimerDue
  /\ UNCHANGED <<apiVars, hashVars>>
  /\ audit = "inflight" \/ "audit" \in stale
  /\ \E msg \in AuditMessages :
       ProgressCallback(IF MentionsCompetitor(msg) THEN "competitor" ELSE "technical", msg)

\* onProgress of generateSeoAnalysis, of this run or of an ended one
SeoProgress ==
  /\ NoTimerDue
  /\ UNCHANGED <<apiVars, hashVars>>
  /\ seo = "inflight" \/ "seo" \in stale
  /\ ProgressCallback("content", "Analyzing page content")

\* onProgress of createActionPlan
PlanProgress ==
  /\ NoTimerDue
  /\ UNCHANGED <<apiVars, hashVars>>
  /\ pc \in {"hitPlan", "plan"}
  /\ ProgressCallback("actionplan", "Building action plan")

\* generateSitewideAudit resolves
AuditReturns ==
  /\ NoTimerDue
  /\ UNCHANGED <<apiVars, hashVars>>
  /\ pc = "parallel"
  /\ audit = "inflight"
  /\ audit' = "ok"
  /\ \E v \in SitewideValues(runNo) : locals' = [locals EXCEPT !.sitewide = v]
  /\ UNCHANGED <<appState, error, pipelineStages, activityLog, partialResults,
                 aborted, pc, seo, stale, rafQueue, runNo, cbCount, calls,
                 given, trace>>
  /\ UNCHANGED <<cacheVars, clockVars>>

\* generateSeoAnalysis resolves
SeoReturns ==
  /\ NoTimerDue
  /\ UNCHANGED <<apiVars, hashVars>>
  /\ pc = "parallel"
  /\ seo = "inflight"
  /\ seo' = "ok"
  /\ \E v \in SeoValues(runNo) : locals' = [locals EXCEPT !.seo = v]
  /\ UNCHANGED <<appState, error, pipelineStages, activityLog, partialResults,
                 aborted, pc, audit, stale, rafQueue, runNo, cbCount, calls,
                 given, trace>>
  /\ UNCHANGED <<cacheVars, clockVars>>

\* Promise.all rejects with the first rejection; the other call, if still in
\* flight, goes on without anyone awaiting it
ParallelFails(errorMessage, other) ==
  /\ Catch([stages |-> pipelineStages, trace |-> trace], activityLog,
           partialResults, errorMessage)
  /\ audit' = "idle"
  /\ seo' = "idle"
  /\ stale' = IF other = "audit" /\ audit = "inflight" THEN stale \cup {"audit"}
              ELSE IF other = "seo" /\ seo = "inflight" THEN stale \cup {"seo"}
              ELSE stale
  /\ UNCHANGED <<aborted, locals, rafQueue, runNo, cbCount,
                 calls, given>>
  /\ UNCHANGED <<cacheVars, clockVars>>

AuditFails ==
  /\ NoTimerDue
  /\ UNCHANGED <<apiVars, hashVars>>
  /\ pc = "parallel"
  /\ audit = "inflight"
  /\ ParallelFails("Sitewide audit failed", "seo")

SeoFails ==
  /\ NoTimerDue
  /\ UNCHANGED <<apiVars, hashVars>>
  /\ pc = "parallel"
  /\ seo = "inflight"
  /\ ParallelFails("SEO analysis failed", "audit")

\* a call nobody awaits any more settles
StaleSettles ==
  /\ NoTimerDue
  /\ UNCHANGED <<apiVars, hashVars>>
  /\ \E c \in stale : stale' = stale \ {c}
  /\ UNCHANGED <<appState, error, pipelineStages, activityLog, partialResults,
                 aborted, pc, locals, audit, seo, rafQueue, runNo, cbCount,
                 calls, given, trace>>
  /\ UNCHANGED <<cacheVars, clockVars>>

\* Promise.all resolves: mark the three stages complete, publish the two
\* results, call setAnalysis (no await of its own), then start actionplan
\* and call createActionPlan.
Join ==
  /\ NoTimerDue
  /\ UNCHANGED <<last, lastScan, ops, hashVars>>
  /\ pc = "parallel"
  /\ audit = "ok"
  /\ seo = "ok"
  /\ LET ps == ApplyUpdates([stages |-> pipelineStages, trace |-> trace],
                            JoinUpdates)
     IN  /\ pipelineStages' = ps.stages
         /\ trace' = ps.trace
  /\ activityLog' = addLogs(activityLog,
       << <<"Sitewide audit complete", "success", "technical">>,
          <<"Content analysis complete", "success", "content">>,
          <<"Caching analysis for future use...", "info", Nil>>,
          <<"Generating implementation roadmap...", "ai", "actionplan">> >>)
  /\ partialResults' = [partialResults EXCEPT
                          !.sitewideAnalysis = locals.sitewide,
                          !.seoAnalysis = locals.seo]
  /\ \E w \in WriteOutcomes :
       \E cleared \in clearOldestEntries(store, QUOTA_EVICT_COUNT) :
         LET r == setAnalysis(store, meta, now, locals.url, locals.urls,
                              locals.sitewide, locals.seo, DEFAULT_TTL_MS,
                              w, cleared)
         IN  /\ store' = r.store
             /\ meta' = r.meta
             /\ pendingEnforce' = IF r.scheduled THEN pendingEnforce + 1
                                  ELSE pendingEnforce
             /\ written' = IF Wrote(w)
                           THEN written \cup
                                  { [key |-> CacheKeyOf(locals.url, locals.urls),
                                     timestamp |-> now] }
                           ELSE written
             /\ faults' = Failed(WriteClean(w))
  /\ calls' = [calls EXCEPT !.store = @ + 1, !.plan = @ + 1]
  /\ given' = [given EXCEPT
                 !.plan = [sitewide |-> locals.sitewide, seo |-> locals.seo],
                 !.stored = locals.urls,
                 !.store = [s \in StageIds |->
                              ApplyUpdates([stages |-> pipelineStages, trace |-> trace],
                                           ParallelDoneUpdates).stages[s].status]]
  /\ audit' = "idle"
  /\ seo' = "idle"
  /\ pc' = "plan"
  /\ UNCHANGED <<appState, error, aborted, locals, stale, rafQueue,
                 pendingCleanup, runNo, cbCount>>
  /\ UNCHANGED <<clockVars>>

\* createActionPlan resolved: up to the await of generateExecutiveSummary
PlanResolved(doneMessage, task, inputs) ==
  /\ LET ps == ApplyUpdates([stages |-> pipelineStages, trace |-> trace],
                            PlanDoneUpdates(task))
     IN  /\ pipelineStages' = ps.stages
         /\ trace' = ps.trace
  /\ activityLog' = addLogs(activityLog,
       << <<doneMessage, "success", "actionplan">>,
          <<"Synthesizing executive summary...", "ai", "summary">> >>)
  /\ \E plan \in PlanValues(runNo) :
       /\ locals' = [locals EXCEPT !.actionPlan = plan]
       /\ partialResults' = [partialResults EXCEPT !.actionPlan = plan]
  /\ calls' = [calls EXCEPT !.summary = @ + 1]
  /\ given' = [given EXCEPT !.summary = inputs]
  /\ UNCHANGED <<appState, error, aborted, rafQueue, runNo, cbCount>>
  /\ UNCHANGED <<cacheVars, clockVars, parVars>>

HitPlanReturns ==
  /\ NoTimerDue
  /\ UNCHANGED <<apiVars, hashVars>>
  /\ pc = "hitPlan"
  /\ PlanResolved("Action plan generated", "Creating 80/20 analysis...", locals.cached)
  /\ pc' = "hitSummary"

PlanReturns ==
  /\ NoTimerDue
  /\ UNCHANGED <<apiVars, hashVars>>
  /\ pc = "plan"
  /\ PlanResolved("Action plan generated successfully", "Generating 80/20 analysis...",
                  [sitewide |-> locals.sitewide, seo |-> locals.seo])
  /\ pc' = "summary"

\* an awaited collaborator of a sequential stage rejects
StageFails(errorMessage) ==
  /\ Catch([stages |-> pipelineStages, trace |-> trace], activityLog,
           partialResults, errorMessage)
  /\ UNCHANGED <<aborted, locals, rafQueue, runNo, cbCount,
                 calls, given>>
  /\ UNCHANGED <<cacheVars, clockVars, parVars>>

\* PlanFails calling createActionPlan again instead of failing the run
PlanFailsRetries ==
  /\ NoTimerDue
  /\ UNCHANGED <<apiVars, hashVars>>
  /\ pc \in {"hitPlan", "plan"}
  /\ calls' = [calls EXCEPT !.plan = @ + 1]
  /\ UNCHANGED <<appState, error, pipelineStages, activityLog, partialResults,
                 aborted, pc, locals, rafQueue, runNo, cbCount, given, trace>>
  /\ UNCHANGED <<cacheVars, clockVars, parVars>>

\* createActionPlan rejects: the catch block
PlanFails ==
  /\ NoTimerDue
  /\ UNCHANGED <<apiVars, hashVars>>
  /\ pc \in {"hitPlan", "plan"}
  /\ StageFails("Action plan generation failed")

SummaryFails ==
  /\ NoTimerDue
  /\ UNCHANGED <<apiVars, hashVars>>
  /\ pc \in {"hitSummary", "summary"}
  /\ StageFails("Executive summary failed")

\* generateExecutiveSummary resolved: finalize.  historyOk: whether
\* localStorage.setItem(HISTORY_STORAGE_KEY, ...) succeeds; its exception
\* lands in the catch block.
SummaryResolved(finalLogs) ==
  /\ \E summary \in SummaryValues(runNo), historyOk \in BOOLEAN :
       LET ps == ApplyUpdates([stages |-> pipelineStages, trace |-> trace],
                              SummaryDoneUpdates)
           log == addLogs(activityLog,
                    << <<"Executive summary complete", "success", "summary">> >>
                    \o finalLogs)
           results == [partialResults EXCEPT !.executiveSummary = summary]
       IN  IF historyOk
           THEN /\ pipelineStages' = ps.stages
                /\ trace' = ps.trace
                /\ activityLog' = log
                /\ partialResults' = results
                /\ appState' = "results"
                /\ pc' = "done"
                /\ UNCHANGED error
           ELSE Catch(ps, log, results, "QuotaExceededError")
  /\ UNCHANGED <<aborted, locals, rafQueue, runNo, cbCount, calls, given>>
  /\ UNCHANGED <<cacheVars, clockVars, parVars>>

HitSummaryReturns ==
  /\ NoTimerDue
  /\ UNCHANGED <<apiVars, hashVars>>
  /\ pc = "hitSummary"
  /\ SummaryResolved(<<>>)

SummaryReturns ==
  /\ NoTimerDue
  /\ UNCHANGED <<apiVars, hashVars>>
  /\ pc = "summary"
  /\ SummaryResolved(<< <<"Analysis complete! Building final report...", "success", Nil>> >>)

\* handleNewAnalysis, from the error screen or the results header
NewAnalysis ==
  /\ NoTimerDue
  /\ UNCHANGED <<apiVars, hashVars>>
  /\ appState \in {"error", "results"}
  /\ appState' = "idle"
  /\ error' = Nil
  /\ pipelineStages' = PIPELINE_STAGE_DEFINITIONS
  /\ activityLog' = <<>>
  /\ partialResults' = EmptyResults
  /\ pc' = "idle"
  /\ cbCount' = 0
  /\ calls' = NoCalls
  /\ given' = NoInputs
  /\ trace' = <<>>
  /\ UNCHANGED <<aborted, locals, rafQueue, runNo>>
  /\ UNCHANGED <<cacheVars, clockVars, parVars>>

\* abortControllerRef.current.abort(): the signal is handed to no
\* collaborator and read nowhere
Cancel ==
  /\ NoTimerDue
  /\ UNCHANGED <<apiVars, hashVars>>
  /\ pc \notin {"idle", "done", "failed"}
  /\ aborted = "fresh"
  /\ aborted' = "aborted"
  /\ UNCHANGED <<appState, error, pipelineStages, activityLog, partialResults,
                 pc, locals, rafQueue, runNo, cbCount, calls, given, trace>>
  /\ UNCHANGED <<cacheVars, clockVars, parVars>>

\* the deferred cleanupExpiredEntries of a getAnalysis call
RunCleanup ==
  /\ pendingCleanup > 0
  /\ UNCHANGED <<apiVars, hashVars>>
  /\ pendingCleanup' = pendingCleanup - 1
  /\ \E writeOk \in BOOLEAN :
       LET r == cleanupExpiredEntries(store, meta, now, writeOk)
       IN  /\ store' = r.store
           /\ meta' = r.meta
  /\ UNCHANGED <<appState, error, pipelineStages, activityLog, partialResults,
                 aborted, pc, locals, rafQueue, pendingEnforce, runNo, cbCount,
                 calls, given, trace>>
  /\ UNCHANGED <<clockVars, parVars>>

\* the deferred enforceCacheLimit of a setAnalysis call
RunEnforce ==
  /\ pendingEnforce > 0
  /\ UNCHANGED <<apiVars, hashVars>>
  /\ pendingEnforce' = pendingEnforce - 1
  /\ \E writeOk \in BOOLEAN :
       \E r \in enforceCacheLimit(store, meta, now, writeOk) :
         /\ store' = r.store
         /\ meta' = r.meta
  /\ UNCHANGED <<appState, error, pipelineStages, activityLog, partialResults,
                 aborted, pc, locals, rafQueue, pendingCleanup, runNo, cbCount,
                 calls, given, trace>>
  /\ UNCHANGED <<clockVars, parVars>>

TickSteps == { CLEANUP_INTERVAL_MS, DEFAULT_TTL_MS + 1 }

\* the wall clock advances
Tick ==
  /\ NoTimerDue
  /\ UNCHANGED <<apiVars, hashVars>>
  /\ ticks < MaxTicks
  /\ ticks' = ticks + 1
  /\ \E d \in TickSteps : now' = now + d
  /\ UNCHANGED <<appState, error, pipelineStages, activityLog, partialResults,
                 aborted, pc, locals, rafQueue, runNo, cbCount, calls, given,
                 trace>>
  /\ UNCHANGED <<cacheVars, parVars>>

Next ==
  \/ SubmitRejected
  \/ Submit
  \/ CrawlProgress
  \/ AnimationFrame
  \/ CrawlReturns
  \/ CrawlFails
  \/ AuditProgress
  \/ SeoProgress
  \/ PlanProgress
  \/ AuditReturns
  \/ SeoReturns
  \/ AuditFails
  \/ SeoFails
  \/ StaleSettles
  \/ Join
  \/ HitPlanReturns
  \/ PlanReturns
  \/ PlanFails
  \/ HitSummaryReturns
  \/ SummaryReturns
  \/ SummaryFails
  \/ NewAnalysis
  \/ Cancel
  \/ RunCleanup
  \/ RunEnforce
  \/ Tick

Spec == Init /\ [][Next]_vars

\* Runs for the large site and for the small one, whose collaborators all
\* succeed
LongNext ==
  \/ Submit
  \/ SubmitLarge
  \/ CrawlReturns
  \/ AuditReturns
  \/ SeoReturns
  \/ Join
  \/ HitPlanReturns
  \/ PlanReturns
  \/ HitSummaryReturns
  \/ SummaryReturns
  \/ NewAnalysis
  \/ RunCleanup
  \/ RunEnforce
  \/ Tick

LongSpec == Init /\ [][LongNext]_vars


\* Every collaborator call eventually settles, timers fire, and a settled
\* promise resumes the run.
FairSpec ==
  /\ Spec
  /\ WF_vars(CrawlReturns \/ CrawlFails)
  /\ WF_vars(AuditReturns \/ AuditFails)
  /\ WF_vars(SeoReturns \/ SeoFails)
  /\ WF_vars(Join)
  /\ WF_vars(HitPlanReturns \/ PlanReturns \/ PlanFails)
  /\ WF_vars(HitSummaryReturns \/ SummaryReturns \/ SummaryFails)
  /\ WF_vars(RunCleanup)
  /\ WF_vars(RunEnforce)

\* ------------------------------------------------------------------------
\* The cache service called directly: lookup (getAnalysis), store
\* (setAnalysis), invalidate (clearAnalysis), clear (clearCache), stats
\* (getStats), with the two deferred tasks, a stored value going bad, and
\* the clock.  Calls awaited one after the other run before the tasks they
\* defer; a deferred task runs before the clock moves on.  The clock starts
\* at the first call: the cache holds nothing that could age before it.
\* ------------------------------------------------------------------------
MaxOps == 3
MaxCacheTicks == 2
MaxFaults == 1
MaxGarbled == 1

pipelineVars == <<appState, error, pipelineStages, activityLog, partialResults,
                  aborted, pc, locals, audit, seo, stale, rafQueue, runNo,
                  cbCount, calls, given, trace>>

CacheRequestUrls ==
  RequestUrls \cup { [host |-> "b.com", raw |-> "https://b.com/"] }
CacheUrlLists == { <<U1>>, <<U1, U1>> }
\* the calls' arguments: two URL lists with the same members for one domain,
\* and a second domain
CacheInputs ==
  { [domainUrl |-> d, urls |-> u] : d \in RequestUrls, u \in CacheUrlLists }
    \cup { [domainUrl |-> d, urls |-> <<U1>>] : d \in CacheRequestUrls }
ClearPatterns == { "*", "a.com", "v1" }

\* no run, nothing stored, no call made
EmptyCache ==
  /\ appState = "idle"
  /\ error = Nil
  /\ pipelineStages = PIPELINE_STAGE_DEFINITIONS
  /\ activityLog = <<>>
  /\ partialResults = EmptyResults
  /\ aborted = "none"
  /\ pc = "idle"
  /\ locals = NoLocals
  /\ audit = "idle"
  /\ seo = "idle"
  /\ stale = {}
  /\ rafQueue = <<>>
  /\ store = <<>>
  /\ meta = NoMeta
  /\ pendingCleanup = 0
  /\ pendingEnforce = 0
  /\ now = 1
  /\ ticks = 0
  /\ runNo = 0
  /\ cbCount = 0
  /\ calls = NoCalls
  /\ given = NoInputs
  /\ trace = <<>>
  /\ last = NoCall
  /\ written = {}
  /\ lastScan = NoScan
  /\ ops = 0
  /\ faults = 0

CacheInit ==
  /\ EmptyCache
  /\ hashInput = <<>>
  /\ hashOutput = <<>>
  /\ hashFirst = NoFirst

\* one more storage failure is within the bound
MayFail == faults < MaxFaults

\* cacheService.getAnalysis(domainUrl, urls)
LookupCall(domainUrl, urls, io) ==
  LET r == getAnalysis(store, now, domainUrl, urls, io)
  IN  /\ io = "ok" \/ MayFail
      /\ store' = r.store
      /\ pendingCleanup' = pendingCleanup + 1
      /\ last' = [NoCall EXCEPT !.op = "lookup",
                                !.key = CacheKeyOf(domainUrl, urls),
                                !.urls = urls,
                                !.first = io,
                                !.clean = (io = "ok"),
                                !.result = r.result,
                                !.raised = r.raised,
                                !.before = store,
                                !.metaBefore = meta,
                                !.at = now,
                                !.after = Preceding(last)]
      /\ faults' = Failed(io = "ok")
      /\ UNCHANGED <<meta, pendingEnforce, now, ticks, written, lastScan>>
      /\ UNCHANGED <<pipelineVars, hashVars>>

Lookup ==
  /\ ops < MaxOps
  /\ ops' = ops + 1
  /\ \E in \in CacheInputs, io \in ReadOutcomes :
       LookupCall(in.domainUrl, in.urls, io)

\* cacheService.setAnalysis(domainUrl, urls, sitewideAnalysis, seoAnalysis, ttl)
StoreCall(domainUrl, urls, sitewideAnalysis, seoAnalysis, ttl, w) ==
  \E cleared \in clearOldestEntries(store, QUOTA_EVICT_COUNT) :
    LET r == setAnalysis(store, meta, now, domainUrl, urls, sitewideAnalysis,
                         seoAnalysis, ttl, w, cleared)
        key == CacheKeyOf(domainUrl, urls)
        clean == w.first = "ok" /\ w.metaOk
        wrote == w.first = "ok" \/ (w.first = "quota" /\ w.retry)
    IN  /\ clean \/ MayFail
        /\ store' = r.store
        /\ meta' = r.meta
        /\ pendingEnforce' = IF r.scheduled THEN pendingEnforce + 1
                             ELSE pendingEnforce
        /\ written' = IF wrote
                      THEN written \cup { [key |-> key, timestamp |-> now] }
                      ELSE written
        /\ last' = [NoCall EXCEPT !.op = "store",
                                  !.key = key,
                                  !.urls = urls,
                                  !.payload = [sitewide |-> sitewideAnalysis,
                                               seo |-> seoAnalysis],
                                  !.ttl = ttl,
                                  !.first = w.first,
                                  !.retry = w.retry,
                                  !.clean = clean,
                                  !.attempts = r.attempts,
                                  !.scheduled = r.scheduled,
                                  !.raised = r.raised,
                                  !.before = store,
                                  !.metaBefore = meta,
                                  !.at = now]
        /\ faults' = Failed(clean)
        /\ UNCHANGED <<pendingCleanup, now, ticks, lastScan>>
        /\ UNCHANGED <<pipelineVars, hashVars>>

Store ==
  /\ ops < MaxOps
  /\ ops' = ops + 1
  /\ \E in \in CacheInputs, w \in WriteOutcomes :
       \E a \in SitewideValues(ops + 1), b \in SeoValues(ops + 1) :
         StoreCall(in.domainUrl, in.urls, a, b, DEFAULT_TTL_MS, w)

\* cacheService.clearAnalysis(domainUrl, urls)
Invalidate ==
  /\ ops < MaxOps
  /\ ops' = ops + 1
  /\ \E in \in CacheInputs, io \in RemoveOutcomes :
       LET domainUrl == in.domainUrl
           urls == in.urls
           r == clearAnalysis(store, meta, now, domainUrl, urls, io)
           clean == io.remove /\ io.metaOk
       IN  /\ clean \/ MayFail
           /\ store' = r.store
           /\ meta' = r.meta
           /\ last' = [NoCall EXCEPT !.op = "invalidate",
                                     !.key = CacheKeyOf(domainUrl, urls),
                                     !.urls = urls,
                                     !.clean = clean,
                                     !.raised = r.raised,
                                     !.before = store,
                                     !.metaBefore = meta,
                                     !.at = now]
           /\ faults' = Failed(clean)
  /\ UNCHANGED <<pendingCleanup, pendingEnforce, now, ticks, written, lastScan>>
  /\ UNCHANGED <<pipelineVars, hashVars>>

\* cacheService.clearCache(pattern)
Clear ==
  /\ ops < MaxOps
  /\ ops' = ops + 1
  /\ \E pattern \in ClearPatterns, io \in RemoveOutcomes :
       LET r == clearCache(store, meta, now, pattern, io)
           clean == io.remove /\ io.metaOk
       IN  /\ clean \/ MayFail
           /\ store' = r.store
           /\ meta' = r.meta
           /\ last' = [NoCall EXCEPT !.op = "clear",
                                     !.pattern = pattern,
                                     !.clean = clean,
                                     !.raised = r.raised,
                                     !.before = store,
                                     !.metaBefore = meta,
                                     !.at = now]
           /\ faults' = Failed(clean)
  /\ UNCHANGED <<pendingCleanup, pendingEnforce, now, ticks, written, lastScan>>
  /\ UNCHANGED <<pipelineVars, hashVars>>

\* cacheService.getStats()
Stats ==
  /\ ops < MaxOps
  /\ ops' = ops + 1
  /\ \E seen \in SUBSET (DOMAIN store) :
       LET r == getStats(store, seen)
           clean == seen = DOMAIN store
       IN  /\ clean \/ MayFail
           /\ last' = [NoCall EXCEPT !.op = "stats",
                                     !.clean = clean,
                                     !.stats = [entries |-> r.entries,
                                                oldestEntry |-> r.oldestEntry,
                                                newestEntry |-> r.newestEntry],
                                     !.raised = r.raised,
                                     !.before = store,
                                     !.metaBefore = meta,
                                     !.at = now,
                                     !.after = Preceding(last)]
           /\ faults' = Failed(clean)
  /\ UNCHANGED <<store, meta, pendingCleanup, pendingEnforce, now, ticks,
                 written, lastScan>>
  /\ UNCHANGED <<pipelineVars, hashVars>>

\* the deferred cleanupExpiredEntries of a lookup
Sweep ==
  /\ pendingCleanup > 0
  /\ pendingCleanup' = pendingCleanup - 1
  /\ \E writeOk \in BOOLEAN :
       LET r == cleanupExpiredEntries(store, meta, now, writeOk)
           clean == writeOk \/ ~r.scanned
       IN  /\ clean \/ MayFail
           /\ store' = r.store
           /\ meta' = r.meta
           /\ lastScan' = IF r.scanned THEN [at |-> now, saved |-> writeOk]
                          ELSE lastScan
           /\ last' = [NoCall EXCEPT !.op = "sweep",
                                     !.clean = clean,
                                     !.scanned = r.scanned,
                                     !.before = store,
                                     !.metaBefore = meta,
                                     !.at = now,
                                     !.sinceScan = lastScan]
           /\ faults' = Failed(clean)
  /\ UNCHANGED <<pendingEnforce, now, ticks, written, ops>>
  /\ UNCHANGED <<pipelineVars, hashVars>>

\* the deferred enforceCacheLimit of a store
Enforce ==
  /\ pendingEnforce > 0
  /\ pendingEnforce' = pendingEnforce - 1
  /\ \E writeOk \in BOOLEAN :
       \E r \in enforceCacheLimit(store, meta, now, writeOk) :
         LET clean == writeOk \/ r.store = store
         IN  /\ clean \/ MayFail
             /\ store' = r.store
             /\ meta' = r.meta
             /\ last' = [NoCall EXCEPT !.op = "enforce", !.clean = clean]
             /\ faults' = Failed(clean)
  /\ UNCHANGED <<pendingCleanup, now, ticks, written, lastScan, ops>>
  /\ UNCHANGED <<pipelineVars, hashVars>>

\* a stored value goes bad: from now on JSON.parse rejects it
Garble ==
  /\ Cardinality({ k \in DOMAIN store : ~Parses(store[k]) }) < MaxGarbled
  /\ MayFail
  /\ faults' = faults + 1
  /\ \E k \in DOMAIN store :
       /\ Parses(store[k])
       /\ store' = [store EXCEPT ![k] = Garbled]
       /\ last' = [NoCall EXCEPT !.op = "garble", !.key = k]
  /\ UNCHANGED <<meta, pendingCleanup, pendingEnforce, now, ticks, written,
                 lastScan, ops>>
  /\ UNCHANGED <<pipelineVars, hashVars>>

\* the wall clock advances
CacheTick ==
  /\ NoTimerDue
  /\ ops > 0
  /\ ticks < MaxCacheTicks
  /\ ticks' = ticks + 1
  /\ \E d \in TickSteps : now' = now + d
  /\ UNCHANGED <<store, meta, pendingCleanup, pendingEnforce>>
  /\ UNCHANGED apiVars
  /\ UNCHANGED <<pipelineVars, hashVars>>

CacheNext ==
  \/ Lookup
  \/ Store
  \/ Invalidate
  \/ Clear
  \/ Stats
  \/ Sweep
  \/ Enforce
  \/ Garble
  \/ CacheTick

CacheSpec == CacheInit /\ [][CacheNext]_vars

\* ------------------------------------------------------------------------
\* A client that fills the cache: store after store from an empty cache,
\* each under a key of its own, with the deferred enforceCacheLimit tasks.
\* The clock moves a millisecond at a time and no more than once per store,
\* so only the first stores can share a createdAt; a write can fail only
\* during the first stores.
\* ------------------------------------------------------------------------
MaxFill == 52
MaxBurst == 2
MaxTied == 3
MaxFailAt == 7

\* the URL list of the n-th store
FillUrls(n) == << <<96 + n>> >>

FillStore ==
  /\ ops < MaxFill
  /\ pendingEnforce < MaxBurst
  /\ now > ops \/ ops < MaxTied
  /\ ops' = ops + 1
  /\ \E domainUrl \in RequestUrls, w \in WriteOutcomes :
       \E a \in SitewideValues(ops + 1), b \in SeoValues(ops + 1) :
         /\ (w.first = "ok" /\ w.metaOk) \/ ops < MaxFailAt
         /\ StoreCall(domainUrl, FillUrls(ops + 1), a, b, DEFAULT_TTL_MS, w)

\* the wall clock advances by a millisecond
FillTick ==
  /\ now <= ops
  /\ now' = now + 1
  /\ UNCHANGED <<store, meta, pendingCleanup, pendingEnforce, ticks>>
  /\ UNCHANGED apiVars
  /\ UNCHANGED <<pipelineVars, hashVars>>

FillNext ==
  \/ FillStore
  \/ Enforce
  \/ FillTick

FillSpec == CacheInit /\ [][FillNext]_vars

\* Filling the cache while a key that was never stored is invalidated: the
\* invalidations are issued before the MaxInvalidateAt-th store.
MaxInvalidateAt == 2

\* cacheService.clearAnalysis for a URL list that no store has used
FillInvalidate ==
  /\ ops < MaxInvalidateAt
  /\ \E domainUrl \in RequestUrls, io \in RemoveOutcomes :
       LET urls == FillUrls(0)
           r == clearAnalysis(store, meta, now, domainUrl, urls, io)
           clean == io.remove /\ io.metaOk
       IN  /\ clean \/ MayFail
           /\ store' = r.store
           /\ meta' = r.meta
           /\ last' = [NoCall EXCEPT !.op = "invalidate",
                                     !.key = CacheKeyOf(domainUrl, urls),
                                     !.urls = urls,
                                     !.clean = clean,
                                     !.raised = r.raised,
                                     !.before = store,
                                     !.metaBefore = meta,
                                     !.at = now]
           /\ faults' = Failed(clean)
  /\ UNCHANGED <<pendingCleanup, pendingEnforce, now, ticks, written, lastScan, ops>>
  /\ UNCHANGED <<pipelineVars, hashVars>>

MiscountNext ==
  \/ FillStore
  \/ FillInvalidate
  \/ Enforce
  \/ FillTick

MiscountSpec == CacheInit /\ [][MiscountNext]_vars

\* Lookups that go on for ever: entries are stored, the clock advances, and
\* a key that is never stored keeps being looked up, each lookup issued once
\* the sweep of the one before has run.
LookupAgain ==
  /\ pendingCleanup = 0
  /\ ops > 0
  /\ \E domainUrl \in RequestUrls, io \in ReadOutcomes :
       LookupCall(domainUrl, <<U2>>, io)
  /\ UNCHANGED ops

SweepNext ==
  \/ Store
  \/ LookupAgain
  \/ Sweep
  \/ Enforce
  \/ CacheTick

\* lookups keep being issued, every deferred task runs, and the clock
\* advances while it can
SweepSpec ==
  /\ CacheInit
  /\ [][SweepNext]_vars
  /\ WF_vars(LookupAgain)
  /\ WF_vars(Sweep)
  /\ WF_vars(Enforce)
  /\ WF_vars(CacheTick)

\* ------------------------------------------------------------------------
\* generateUrlsHash on its own: a URL list of up to MaxUrls URLs is hashed,
\* then reordered one neighbouring pair at a time and hashed again.
\* ------------------------------------------------------------------------
MaxUrls == 4

\* "a", "b" and "ab"
HashUrlPool == { U1, U2, <<97, 98>> }
HashUrlLists == UNION { [1..n -> HashUrlPool] : n \in 0..MaxUrls }

HashInit ==
  /\ EmptyCache
  /\ \E urls \in HashUrlLists :
       /\ hashInput = urls
       /\ hashOutput = generateUrlsHash(urls)
       /\ hashFirst = [urls |-> urls, hash |-> generateUrlsHash(urls)]

Swap(urls, i) ==
  [j \in 1..Len(urls) |->
     IF j = i THEN urls[i + 1] ELSE IF j = i + 1 THEN urls[i] ELSE urls[j]]

Reorder ==
  /\ \E i \in 1..(Len(hashInput) - 1) :
       /\ hashInput' = Swap(hashInput, i)
       /\ hashOutput' = generateUrlsHash(Swap(hashInput, i))
  /\ UNCHANGED hashFirst
  /\ UNCHANGED <<store, meta, pendingCleanup, pendingEnforce, now, ticks>>
  /\ UNCHANGED apiVars
  /\ UNCHANGED pipelineVars

HashNext == Reorder

HashSpec == HashInit /\ [][HashNext]_vars

\* generateUrlsHash on a list in which a URL is repeated: the list is
\* reordered, or one of its URLs is written once more next to itself, and
\* hashed again.
MaxRepeats == 1

Repeated(urls, i) == SubSeq(urls, 1, i) \o SubSeq(urls, i, Len(urls))

Repeat ==
  /\ Len(hashInput) - Len(hashFirst.urls) < MaxRepeats
  /\ \E i \in 1..Len(hashInput) :
       /\ hashInput' = Repeated(hashInput, i)
       /\ hashOutput' = generateUrlsHash(Repeated(hashInput, i))
  /\ UNCHANGED hashFirst
  /\ UNCHANGED <<store, meta, pendingCleanup, pendingEnforce, now, ticks>>
  /\ UNCHANGED apiVars
  /\ UNCHANGED pipelineVars

RepeatNext ==
  \/ Reorder
  \/ Repeat

RepeatSpec == HashInit /\ [][RepeatNext]_vars

\* ------------------------------------------------------------------------
\* Vocabulary of the properties
\* ------------------------------------------------------------------------
Status(s) == pipelineStages[s].status
Terminal(st) == st \in {"complete", "error", "skipped"}
ParallelStages == {"competitor", "technical", "content"}
AnalysisStages == {"rank"} \cup ParallelStages

Group(s) ==
  CASE s = "crawl" -> 1
    [] s = "rank" -> 2
    [] s \in ParallelStages -> 3
    [] s = "actionplan" -> 4
    [] s = "summary" -> 5

\* the run has made its cache check and got an entry / got none
CacheWasHit == pc # "idle" /\ calls.lookup = 1 /\ locals.cached # NoResult
CacheWasMissed == pc # "idle" /\ calls.lookup = 1 /\ locals.cached = NoResult

\* the status changes of stage s, in the order they were applied
RECURSIVE ChangesOf(_, _)
ChangesOf(s, tr) ==
  IF tr = <<>> THEN <<>>
  ELSE (IF Head(tr)[1] = s THEN << <<Head(tr)[2], Head(tr)[3]>> >> ELSE <<>>)
       \o ChangesOf(s, Tail(tr))

RanOnce(s) ==
  ChangesOf(s, trace) = << <<"pending", "running">>, <<"running", "complete">> >>

\* the errors that are a collaborator's failure
CollaboratorErrors ==
  { "Failed to fetch sitemap", "Sitewide audit failed", "SEO analysis failed",
    "Action plan generation failed", "Executive summary failed" }

\* ------------------------------------------------------------------------
\* C1: on a cache miss, no stage is started before every stage of the
\* groups before it (crawl; rank; competitor/technical/content; actionplan;
\* summary) has been completed, a stage is only ever started from pending,
\* and when the run has succeeded every one of the seven stages has gone
\* pending -> running -> complete exactly once.
\* ------------------------------------------------------------------------
C1_MissRunsStagesInOrder ==
  (pc # "idle" /\ locals.cached = NoResult) =>
    /\ \A i \in DOMAIN trace :
         trace[i][3] = "running" =>
           /\ trace[i][2] = "pending"
           /\ \A s \in StageIds :
                Group(s) < Group(trace[i][1]) =>
                  \E j \in 1..(i - 1) : trace[j] = <<s, "running", "complete">>
    /\ pc = "done" => \A s \in StageIds : RanOnce(s)

C1_Witness ==
  /\ pc = "done"
  /\ CacheWasMissed
  /\ Len(trace) = 14

\* ------------------------------------------------------------------------
\* C2: on a cache hit the ranker, the site-wide audit and the per-page
\* analysis are not called in that run, rank/competitor/technical/content
\* are skipped or complete, the action plan and the summary are computed
\* from the cached payloads, and in a run that succeeds actionplan and
\* summary each go pending -> running -> complete.
\* ------------------------------------------------------------------------
C2_HitReplaysFromCache ==
  CacheWasHit =>
    /\ calls.rank = 0 /\ calls.audit = 0 /\ calls.seo = 0
    /\ audit = "idle" /\ seo = "idle"
    /\ \A s \in AnalysisStages : Status(s) \in {"skipped", "complete"}
    /\ calls.plan = 1
    /\ given.plan = locals.cached
    /\ partialResults.sitewideAnalysis = locals.cached.sitewide
    /\ partialResults.seoAnalysis = locals.cached.seo
    /\ pc \in {"hitSummary", "done"} =>
         calls.summary = 1 /\ given.summary = locals.cached
    /\ pc = "done" => RanOnce("actionplan") /\ RanOnce("summary")

C2_Witness ==
  /\ pc = "done"
  /\ CacheWasHit
  /\ given.summary = locals.cached
  /\ locals.cached.sitewide # Unset

\* ------------------------------------------------------------------------
\* C3: actionplan is running or complete only if competitor, technical and
\* content are all terminal, and whenever actionplan was started each of
\* the three had been taken to a terminal status before.
\* ------------------------------------------------------------------------
C3_ActionPlanAfterBarrier ==
  /\ Status("actionplan") \in {"running", "complete"} =>
       \A s \in ParallelStages : Terminal(Status(s))
  /\ \A i \in DOMAIN trace :
       (trace[i][1] = "actionplan" /\ trace[i][3] = "running") =>
         \A s \in ParallelStages :
           \E j \in 1..(i - 1) : trace[j][1] = s /\ Terminal(trace[j][3])

C3_Witness ==
  /\ Status("actionplan") = "running"
  /\ CacheWasMissed
  /\ \A s \in ParallelStages : Status(s) = "complete"

\* ------------------------------------------------------------------------
\* C4: when the run has failed because a parallel analysis collaborator
\* failed, the run is in error status and competitor, technical and content
\* are all terminal, whether or not the other collaborator has settled.
\* ------------------------------------------------------------------------
C4_ParallelFailureLeavesNoneRunning ==
  (pc = "failed" /\ error \in {"Sitewide audit failed", "SEO analysis failed"}) =>
    /\ appState = "error"
    /\ \A s \in ParallelStages : Terminal(Status(s))

C4_Witness ==
  /\ pc = "failed"
  /\ error = "Sitewide audit failed"
  /\ "seo" \in stale
  /\ \A s \in ParallelStages : Status(s) = "error"

\* ------------------------------------------------------------------------
\* C5: the step in which a collaborator's failure ends the run sets every
\* stage that was running to error, and from then on, until the pipeline is
\* reset, no stage changes its status (none goes from pending to running).
\* ------------------------------------------------------------------------
C5_NoStageStartsAfterFailure ==
  [][ /\ (pc # "failed" /\ pc' = "failed" /\ error' \in CollaboratorErrors) =>
           \A s \in StageIds : Status(s) = "running" => pipelineStages'[s].status = "error"
      /\ (pc = "failed" /\ error \in CollaboratorErrors /\ pc' = "failed") =>
           \A s \in StageIds : pipelineStages'[s].status = Status(s) ]_vars

C5_Witness ==
  /\ pc = "failed"
  /\ error = "Action plan generation failed"
  /\ Status("actionplan") = "error"
  /\ Status("summary") = "pending"

\* ------------------------------------------------------------------------
\* C6: a step that ends the run in error, and every step taken while the
\* run is in error, leaves each PartialResults slot that holds a value
\* holding that value.
\* ------------------------------------------------------------------------
C6_FailureKeepsPartialResults ==
  [][ pc' = "failed" =>
        \A k \in DOMAIN partialResults :
          partialResults[k] # Unset => partialResults'[k] = partialResults[k] ]_vars

C6_Witness ==
  /\ pc = "failed"
  /\ error = "Executive summary failed"
  /\ partialResults.urlsDiscovered > 0
  /\ partialResults.urlsAnalyzed > 0
  /\ partialResults.sitewideAnalysis # Unset
  /\ partialResults.seoAnalysis # Unset
  /\ partialResults.actionPlan # Unset

\* ------------------------------------------------------------------------
\* C7: when the crawler has returned no URL, the run is in error, the cache
\* has been neither looked up nor written by the run, and rank and every
\* later stage are pending.
\* ------------------------------------------------------------------------
C7_EmptyCrawlFailsRun ==
  (pc # "idle" /\ partialResults.urlsDiscovered = 0) =>
    /\ pc = "failed"
    /\ appState = "error"
    /\ calls.lookup = 0 /\ calls.store = 0
    /\ \A s \in StageIds \ {"crawl"} : Status(s) = "pending"

C7_Witness ==
  /\ pc = "failed"
  /\ partialResults.urlsDiscovered = 0
  /\ Status("crawl") = "complete"
  /\ error = "Crawl complete, but no URLs were found."

\* ------------------------------------------------------------------------
\* C8: a run in the loading state eventually reaches results or error.
\* ------------------------------------------------------------------------
C8_RunTerminates ==
  (appState = "loading") ~> (appState \in {"results", "error"})

C8_Witness ==
  /\ appState = "results"
  /\ pc = "done"
  /\ runNo = MaxRuns

\* ------------------------------------------------------------------------
\* C9: cancelling the run sets every running stage to error, and after the
\* cancellation no stage is started and no partial result changes.
\* ------------------------------------------------------------------------
C9_CancelStopsRun ==
  [][ /\ (aborted = "fresh" /\ aborted' = "aborted") =>
           \A s \in StageIds : Status(s) = "running" => pipelineStages'[s].status = "error"
      /\ (aborted = "aborted" /\ aborted' = "aborted") =>
           /\ \A s \in StageIds :
                ~(Status(s) = "pending" /\ pipelineStages'[s].status = "running")
           /\ partialResults' = partialResults ]_vars

\* ------------------------------------------------------------------------
\* C10 as stated: every status change applied in a run is pending -> running,
\* running -> complete, running -> error or pending -> skipped.
\* ------------------------------------------------------------------------
StateMachineChanges ==
  { <<"pending", "running">>, <<"running", "complete">>,
    <<"running", "error">>, <<"pending", "skipped">> }

C10_OnlyStateMachineChanges ==
  \A i \in DOMAIN trace : <<trace[i][2], trace[i][3]>> \in StateMachineChanges

\* ------------------------------------------------------------------------
\* C10 amended: every status change applied in a run is one of those four,
\* or is pending -> complete applied to rank, competitor, technical or
\* content by the fast-forward of a cache hit.
\* ------------------------------------------------------------------------
C10_StateMachineOrFastForward ==
  \A i \in DOMAIN trace :
    \/ <<trace[i][2], trace[i][3]>> \in StateMachineChanges
    \/ /\ <<trace[i][2], trace[i][3]>> = <<"pending", "complete">>
       /\ trace[i][1] \in AnalysisStages
       /\ CacheWasHit

C10_Witness ==
  /\ CacheWasHit
  /\ \A s \in AnalysisStages :
       ChangesOf(s, trace) = << <<"pending", "complete">> >>
  /\ ChangesOf("crawl", trace) = << <<"pending", "running">>, <<"running", "complete">> >>

\* ------------------------------------------------------------------------
\* Vocabulary of the cache properties
\* ------------------------------------------------------------------------
Members(urls) == { urls[i] : i \in DOMAIN urls }
SameMembers(urls, other) == Members(urls) = Members(other)

\* the entry a lookup found under its key, or Nil
Found(call) ==
  IF call.key \in DOMAIN call.before THEN call.before[call.key] ELSE Nil

\* ------------------------------------------------------------------------
\* C11: a store(domainUrl, urls, A, B) whose writes succeed, followed
\* immediately by a lookup(domainUrl, urls') whose reads succeed, where urls'
\* has the same members as urls and the TTL has not elapsed, returns exactly
\* the payloads A and B.
\* ------------------------------------------------------------------------
C11_StoreThenLookupReturnsStored ==
  ( /\ last.op = "lookup"
    /\ last.clean
    /\ last.after.op = "store"
    /\ last.after.clean
    /\ last.key[1] = last.after.key[1]
    /\ SameMembers(last.urls, last.after.urls)
    /\ last.at - last.after.at <= last.after.ttl )
  => last.result = last.after.payload

\* ------------------------------------------------------------------------
\* C12: a lookup never returns the payloads of an entry with
\* now - createdAt > ttl: when the entry stored under its key is that old,
\* whether or not a sweep has had the chance to remove it, the lookup
\* returns absent.
\* ------------------------------------------------------------------------
C12_NoExpiredPayload ==
  ( /\ last.op = "lookup"
    /\ last.key \in DOMAIN last.before
    /\ Parses(last.before[last.key])
    /\ last.at - last.before[last.key].timestamp > last.before[last.key].ttl )
  => last.result = NoResult

C12_Witness ==
  /\ last.op = "lookup"
  /\ last.clean
  /\ last.key \in DOMAIN last.before
  /\ Parses(last.before[last.key])
  /\ last.at - last.before[last.key].timestamp > last.before[last.key].ttl
  /\ last.result = NoResult

\* ------------------------------------------------------------------------
\* C13: when a lookup whose storage calls succeed finds under its key an
\* entry that is expired or that does not parse, it returns absent and the
\* entry is gone from the store when it returns, so the stats() call made
\* next, reading every key, does not count it.
\* ------------------------------------------------------------------------
C13_ExpiredOrUnparsableRemoved ==
  ( /\ last.op = "stats"
    /\ last.clean
    /\ last.after.op = "lookup"
    /\ last.after.clean
    /\ last.after.key \in DOMAIN last.after.before
    /\ \/ ~Parses(last.after.before[last.after.key])
       \/ last.after.at - last.after.before[last.after.key].timestamp
            > last.after.before[last.after.key].ttl )
  => /\ last.after.result = NoResult
     /\ last.after.key \notin DOMAIN last.before
     /\ last.stats.entries = Cardinality(DOMAIN last.after.before) - 1

\* ------------------------------------------------------------------------
\* C14: when more than 50 entries have been stored under distinct keys, no
\* storage call has failed and every deferred enforcement task has run, the
\* store holds exactly 50 entries, and they are the ones with the largest
\* createdAt: no entry that was dropped is newer than an entry that was kept.
\* ------------------------------------------------------------------------
C14_KeepsFiftyNewest ==
  ( /\ Cardinality({ w.key : w \in written }) > MAX_CACHE_SIZE
    /\ Cardinality({ w.key : w \in written }) = Cardinality(written)
    /\ faults = 0
    /\ pendingEnforce = 0 )
  => /\ Cardinality(DOMAIN store) = MAX_CACHE_SIZE
     /\ \A k \in DOMAIN store :
          [key |-> k, timestamp |-> store[k].timestamp] \in written
     /\ \A w \in written :
          w.key \notin DOMAIN store =>
            \A k \in DOMAIN store : store[k].timestamp >= w.timestamp

\* 52 stores in a row, the first two at the same instant, then the tasks
C14_Witness ==
  /\ Cardinality(written) = MAX_CACHE_SIZE + 2
  /\ faults = 0
  /\ pendingEnforce = 0
  /\ last.op = "enforce"
  /\ Cardinality(DOMAIN store) = MAX_CACHE_SIZE
  /\ \E w \in written, k \in DOMAIN store :
       w.key \notin DOMAIN store /\ store[k].timestamp = w.timestamp

\* ------------------------------------------------------------------------
\* C15: when the first write of a store fails for lack of quota, the cache
\* deletes the min(5, n) entries with the smallest createdAt among the n it
\* holds and writes again exactly once; when that second write fails too,
\* the store returns normally and its entry is not written.  No store makes
\* more than two attempts to write its entry.
\* ------------------------------------------------------------------------
Evicted == (DOMAIN last.before) \ (DOMAIN store)

C15_QuotaEvictsFiveAndRetriesOnce ==
  /\ last.op = "store" => last.attempts <= 2
  /\ (last.op = "store" /\ last.first = "quota") =>
       /\ Cardinality(Evicted) = Min(5, Cardinality(DOMAIN last.before))
       /\ \A e \in Evicted : \A k \in (DOMAIN last.before) \ Evicted :
            last.before[e].timestamp <= last.before[k].timestamp
       /\ \A k \in (DOMAIN last.before) \ Evicted : store[k] = last.before[k]
       /\ last.attempts = 2
       /\ ~last.raised
       /\ last.retry => /\ last.key \in DOMAIN store
                        /\ store[last.key].sitewide = last.payload.sitewide
                        /\ store[last.key].seo = last.payload.seo
       /\ ~last.retry => last.key \notin DOMAIN store

\* a quota failure with six entries stored: the five oldest go, the second
\* write fails
C15_Witness ==
  /\ last.op = "store"
  /\ last.first = "quota"
  /\ ~last.retry
  /\ Cardinality(DOMAIN last.before) = 6
  /\ Cardinality(DOMAIN store) = 1
  /\ last.attempts = 2

\* ------------------------------------------------------------------------
\* C16: no storage failure makes lookup, store, invalidate, clear or stats
\* raise.  A lookup during which a storage call or the parse failed returns
\* absent; a store whose write failed, and whose second write after a quota
\* failure failed too, returns normally with its entry not cached.
\* ------------------------------------------------------------------------
ApiCalls == { "lookup", "store", "invalidate", "clear", "stats" }

\* a storage call of the lookup threw, or the stored value did not parse
LookupFailed ==
  /\ last.op = "lookup"
  /\ \/ last.first = "read"
     \/ /\ last.key \in DOMAIN last.before
        /\ \/ ~Parses(last.before[last.key])
           \/ /\ last.first = "remove"
              /\ last.at - last.before[last.key].timestamp
                   > last.before[last.key].ttl

\* the entry write of the store threw and was not made good by the retry
StoreFailed ==
  /\ last.op = "store"
  /\ \/ last.first = "error"
     \/ last.first = "quota" /\ ~last.retry

C17_SweepOncePerHour ==
  /\ ( /\ last.op = "sweep"
       /\ \/ last.metaBefore = NoMeta
          \/ last.at - last.metaBefore.lastCleanup < 3600000 )
     => /\ ~last.scanned
        /\ store = last.before
        /\ meta = last.metaBefore
  /\ ( /\ last.op = "sweep"
       /\ last.scanned
       /\ last.sinceScan # NoScan
       /\ last.sinceScan.saved )
     => last.at - last.sinceScan.at >= 3600000

\* a second scan, an hour after the first
C17_Witness ==
  /\ last.op = "sweep"
  /\ last.scanned
  /\ last.sinceScan # NoScan
  /\ last.sinceScan.saved
  /\ last.at - last.sinceScan.at = 3600000

\* ------------------------------------------------------------------------
\* C18: an invalidate whose storage calls succeed removes the entry stored
\* under its key if there is one, leaves every other entry as it was, and
\* lowers entryCount by one, but not below 0.
\* ------------------------------------------------------------------------
EntryCount(m) == IF m = NoMeta THEN 0 ELSE m.entries

C18_InvalidateRemovesOne ==
  (last.op = "invalidate" /\ last.clean) =>
    /\ DOMAIN store = (DOMAIN last.before) \ { last.key }
    /\ \A k \in DOMAIN store : store[k] = last.before[k]
    /\ meta # NoMeta
    /\ meta.entries >= 0
    /\ meta.entries = IF EntryCount(last.metaBefore) = 0 THEN 0
                      ELSE EntryCount(last.metaBefore) - 1

\* the entry is there, another one stays, the count goes from 2 to 1
C18_Witness ==
  /\ last.op = "invalidate"
  /\ last.clean
  /\ last.key \in DOMAIN last.before
  /\ Cardinality(DOMAIN store) = 1
  /\ EntryCount(last.metaBefore) = 2
  /\ meta.entries = 1

\* ------------------------------------------------------------------------
\* C19: a clear(filter) whose storage calls succeed deletes exactly the
\* entries whose key, as the string they are stored under, contains the
\* filter (every entry for the match-all filter "*"), leaves every other
\* entry as it was, and sets entryCount to 0 and lastCleanupAt to now.
\* ------------------------------------------------------------------------
ContainsText(text, part) ==
  \E i \in 1..Len(text) :
    /\ i + Len(part) - 1 <= Len(text)
    /\ SubSeq(text, i, i + Len(part) - 1) = part

Cleared(k) ==
  last.pattern = "*" \/ ContainsText(KeyText(k), CodeUnits(last.pattern))

C19_ClearDeletesMatching ==
  (last.op = "clear" /\ last.clean) =>
    /\ DOMAIN store = { k \in DOMAIN last.before : ~Cleared(k) }
    /\ \A k \in DOMAIN store : store[k] = last.before[k]
    /\ meta = [lastCleanup |-> last.at, entries |-> 0]

\* clear("a.com") with an entry of a.com and one of b.com stored
C19_Witness ==
  /\ last.op = "clear"
  /\ last.clean
  /\ last.pattern = "a.com"
  /\ \E k \in DOMAIN last.before : k[1] = "a.com"
  /\ \E k \in DOMAIN store : k[1] = "b.com"
  /\ \A k \in DOMAIN store : k[1] # "a.com"

\* ------------------------------------------------------------------------
\* C20: generateUrlsHash is invariant under permutation: every reordering
\* of a URL list has the fingerprint of the list it was reordered from,
\* hence the same cache key for the same domain.
\* ------------------------------------------------------------------------
C20_PermutationInvariant ==
  /\ hashOutput = hashFirst.hash
  /\ \A url \in CacheRequestUrls :
       generateCacheKey(extractDomain(url), hashOutput)
         = generateCacheKey(extractDomain(url), hashFirst.hash)

\* "b", "ab", "a", "b" reordered into "a", "ab", "b", "b"
C20_Witness ==
  /\ hashFirst.urls = <<U2, <<97, 98>>, U1, U2>>
  /\ hashInput = <<U1, <<97, 98>>, U2, U2>>
  /\ hashOutput = hashFirst.hash

\* ------------------------------------------------------------------------
\* C21: generateUrlsHash is invariant under duplicate insertion: a URL list
\* and the list with some of its URLs repeated, in any order, have the same
\* fingerprint, hence the same cache key for the same domain.
\* ------------------------------------------------------------------------
C21_DuplicateInvariant ==
  SameMembers(hashInput, hashFirst.urls) =>
    /\ hashOutput = hashFirst.hash
    /\ \A url \in CacheRequestUrls :
         CacheKeyOf(url, hashInput) = CacheKeyOf(url, hashFirst.urls)

\* ------------------------------------------------------------------------
\* C22: a miss run that completes its three parallel stages leaves a cache
\* entry under the key of its domain and discovered URLs; and a later run
\* for the same domain and the same discovered URLs, whose cache check is
\* made before the TTL of that entry elapses, gets a hit and takes the
\* replay path: it calls neither the ranker nor the two analyses.  Stated
\* for runs in which no storage call fails.
\* ------------------------------------------------------------------------
RunKey == CacheKeyOf(locals.url, locals.urls)

C22_SecondRunHits ==
  /\ (faults = 0 /\ calls.store = 1) =>
       /\ RunKey \in DOMAIN store
       /\ [key |-> RunKey, timestamp |-> store[RunKey].timestamp] \in written
       /\ store[RunKey].sitewide = locals.sitewide
       /\ store[RunKey].seo = locals.seo
  /\ ( /\ faults = 0
       /\ calls.lookup = 1
       /\ calls.store = 0
       /\ \E w \in written :
            w.key = RunKey /\ now - w.timestamp <= 604800000 )
     => /\ locals.cached # NoResult
        /\ calls.rank = 0
        /\ calls.audit = 0
        /\ calls.seo = 0
        /\ \A s \in AnalysisStages :
             ChangesOf(s, trace) = << <<"pending", "complete">> >>

\* the second run, on its replay path, after the first run stored
C22_Witness ==
  /\ runNo = 2
  /\ faults = 0
  /\ pc = "hitPlan"
  /\ calls.lookup = 1
  /\ calls.store = 0
  /\ \E w \in written : w.key = RunKey /\ now - w.timestamp <= 604800000
  /\ locals.cached # NoResult

\* ------------------------------------------------------------------------
\* C23: within a run setAnalysis is called at most once and only on the
\* miss path, at a moment when competitor, technical and content are
\* complete and actionplan is still pending; a run that hit the cache, or
\* that failed before all three were complete, has not called it.
\* ------------------------------------------------------------------------
C23_StoreOnceAtFanIn ==
  /\ calls.store <= 1
  /\ calls.store = 1 =>
       /\ calls.lookup = 1
       /\ locals.cached = NoResult
       /\ \A s \in ParallelStages :
            /\ given.store[s] = "complete"
            /\ ChangesOf(s, trace)
                 = << <<"pending", "running">>, <<"running", "complete">> >>
       /\ given.store["actionplan"] = "pending"
  /\ (calls.lookup = 1 /\ locals.cached # NoResult) => calls.store = 0
  /\ (\E s \in ParallelStages :
        <<"running", "complete">> \notin
          { ChangesOf(s, trace)[i] : i \in DOMAIN ChangesOf(s, trace) })
     => calls.store = 0

\* the miss run has made its store and waits for the action plan
C23_Witness ==
  /\ calls.store = 1
  /\ pc = "plan"
  /\ locals.cached = NoResult
  /\ given.store["content"] = "complete"
  /\ given.store["actionplan"] = "pending"
  /\ Status("actionplan") = "running"

\* ------------------------------------------------------------------------
\* C24: a sweep that is not throttled and whose storage calls succeed
\* deletes every stored entry with now - createdAt > ttl, keeps every
\* unexpired entry as it was, lowers entryCount by the number of entries it
\* deleted, but not below 0, and sets lastCleanupAt to now.
\* ------------------------------------------------------------------------
Swept == (DOMAIN last.before) \ (DOMAIN store)

C24_SweepDeletesExpired ==
  (last.op = "sweep" /\ last.scanned /\ last.clean) =>
    /\ DOMAIN store \subseteq DOMAIN last.before
    /\ \A k \in DOMAIN last.before :
         Parses(last.before[k]) =>
           IF last.at - last.before[k].timestamp > last.before[k].ttl
           THEN k \notin DOMAIN store
           ELSE k \in DOMAIN store /\ store[k] = last.before[k]
    /\ meta.lastCleanup = last.at
    /\ meta.entries >= 0
    /\ meta.entries =
         IF last.metaBefore.entries > Cardinality(Swept)
         THEN last.metaBefore.entries - Cardinality(Swept)
         ELSE 0

\* an expired entry goes, an unexpired one stays
C24_Witness ==
  /\ last.op = "sweep"
  /\ last.scanned
  /\ last.clean
  /\ \E k \in Swept :
       /\ Parses(last.before[k])
       /\ last.at - last.before[k].timestamp > last.before[k].ttl
  /\ \E k \in DOMAIN store : Parses(store[k])
  /\ meta.entries = last.metaBefore.entries - 1

\* ------------------------------------------------------------------------
\* C25: after every store that writes its entry, at the first attempt or on
\* the retry after a quota failure, and whose metadata write does not fail,
\* entryCount is one more than before and enforceCacheLimit has been
\* scheduled.
\* ------------------------------------------------------------------------
C25_WriteCountsAndSchedules ==
  ( /\ last.op = "store"
    /\ \/ last.clean
       \/ last.first = "quota" /\ last.retry )
  => /\ last.key \in DOMAIN store
     /\ meta # NoMeta
     /\ meta.entries = EntryCount(last.metaBefore) + 1
     /\ last.scheduled

\* ------------------------------------------------------------------------
\* C26: stats(), when every key is read, reports as entryCount the number
\* of live entries in the store, those that parse and are not expired, and
\* as oldestCreatedAt and newestCreatedAt the least and the greatest
\* createdAt among them, both absent when there is none.
\* ------------------------------------------------------------------------
Live(st, t) ==
  { k \in DOMAIN st : Parses(st[k]) /\ t - st[k].timestamp <= st[k].ttl }

C26_StatsCountLiveEntries ==
  (last.op = "stats" /\ last.clean) =>
    LET live == Live(last.before, last.at)
        stamps == { last.before[k].timestamp : k \in live }
    IN  /\ last.stats.entries = Cardinality(live)
        /\ IF live = {}
           THEN /\ last.stats.oldestEntry = Unset
                /\ last.stats.newestEntry = Unset
           ELSE /\ last.stats.oldestEntry \in stamps
                /\ last.stats.newestEntry \in stamps
                /\ \A a \in stamps : /\ last.stats.oldestEntry <= a
                                     /\ last.stats.newestEntry >= a

\* the stages a step changes, and the stages whose status change it records
ChangedStages == { s \in StageIds : pipelineStages'[s] # pipelineStages[s] }
AddressedStages ==
  { trace'[i][1] : i \in (Len(trace) + 1)..Len(trace') }

\* resetPipeline, at a submission or at handleNewAnalysis: no update of a stage
PipelineReset ==
  runNo' # runNo \/ pipelineStages' = PIPELINE_STAGE_DEFINITIONS

C28_ForcedErrorKeepsFields ==
  [][ \A s \in StageIds :
        (pipelineStages[s].status = "running" /\ pipelineStages'[s].status = "error") =>
          pipelineStages'[s] = [pipelineStages[s] EXCEPT !.status = "error"] ]_vars

\* the crawl stage was forced to error after reporting 1 of 2 sitemaps: it
\* still shows the progress, the task, the counts and the start time
C28_Witness ==
  /\ Status("crawl") = "error"
  /\ pipelineStages["crawl"].progress = 50
  /\ pipelineStages["crawl"].itemsProcessed = 1
  /\ pipelineStages["crawl"].totalItems = 2
  /\ pipelineStages["crawl"].currentTask # Nil
  /\ pipelineStages["crawl"].startTime # Nil

\* the messages of the two input errors of handleSubmit
InputErrors ==
  {"Please enter your sitemap.xml URL.", "Please enter a valid sitemap URL"}

\* C29: a submission rejected as an input error (the sitemap URL is missing or
\* does not parse) starts no run. The step that raises the input error calls
\* no collaborator, leaves the cache and its pending tasks untouched, and
\* leaves the stages, the activity log and the partial results exactly as
\* they were; no run is counted and no collaborator call is outstanding.
C29_RejectedSubmissionStartsNothing ==
  [][ (error' \in InputErrors /\ error' # error) =>
        /\ UNCHANGED <<calls, given, runNo, pc, locals, aborted>>
        /\ UNCHANGED <<audit, seo, stale, rafQueue>>
        /\ UNCHANGED <<store, meta, pendingCleanup, pendingEnforce, written>>
        /\ UNCHANGED <<pipelineStages, activityLog, partialResults, trace>> ]_vars

\* a submission was rejected after an earlier run had stored its analyses:
\* no collaborator has been called for it and the entry is still stored
C29_Witness ==
  /\ appState = "error"
  /\ error \in InputErrors
  /\ calls = NoCalls
  /\ pc = "idle"
  /\ runNo = 1
  /\ written # {}
  /\ \A w \in written : w.key \in DOMAIN store

\* crawlSitemap, rankUrls, generateSitewideAudit, generateSeoAnalysis,
\* createActionPlan, generateExecutiveSummary
Collaborators == {"crawl", "rank", "audit", "seo", "plan", "summary"}

\* C30: within one run each collaborator is invoked at most once, also after
\* a failure: no collaborator's call count of the run exceeds one, and once
\* the run has failed no collaborator is called again until a new run starts.
C30_CollaboratorsInvokedAtMostOnce ==
  /\ [](\A c \in Collaborators : calls[c] <= 1)
  /\ [][ (pc = "failed" /\ runNo' = runNo) =>
           \A c \in Collaborators : calls'[c] <= calls[c] ]_vars

\* the action plan failed in a run that had called the crawler, the ranker,
\* the audit, the page analysis and the action plan once each, and the
\* executive summary not at all
C30_Witness ==
  /\ pc = "failed"
  /\ error = "Action plan generation failed"
  /\ \A c \in Collaborators \ {"summary"} : calls[c] = 1
  /\ calls.summary = 0

\* the run has missed the cache and handed its URLs to the two analyses
Analysing == calls.audit = 1 /\ calls.seo = 1

\* C31: on a miss, the URL list handed to the analysis collaborators and the
\* recorded analyzed-count have exactly min(n, 100) elements, n being the
\* number of discovered URLs, while the cache lookup and the cache store are
\* keyed on the full discovered URL list: the entry a clean store writes is
\* under the key of all n URLs.
C31_TruncatedAnalysisFullKey ==
  LET n == Len(locals.urls)
  IN  /\ Analysing =>
           /\ partialResults.urlsDiscovered = n
           /\ Len(given.analysis) = Min(n, MAX_URLS_FOR_ANALYSIS)
           /\ partialResults.urlsAnalyzed = Min(n, MAX_URLS_FOR_ANALYSIS)
           /\ \A i \in 1..Len(given.analysis) :
                \E j \in 1..n : given.analysis[i] = locals.urls[j]
      /\ calls.lookup = 1 => given.looked = locals.urls
      /\ calls.store = 1 =>
           /\ given.stored = locals.urls
           /\ (pc = "plan" /\ faults = 0) =>
                \E w \in written : w.key = CacheKeyOf(locals.url, given.stored)

\* 101 URLs were discovered, 100 were handed to the analyses and counted,
\* and the entry is stored under the key of the 101 and not of the 100
C31_Witness ==
  /\ Analysing
  /\ Len(locals.urls) = 101
  /\ Len(given.analysis) = 100
  /\ partialResults.urlsAnalyzed = 100
  /\ calls.store = 1
  /\ faults = 0
  /\ CacheKeyOf(locals.url, locals.urls) \in DOMAIN store
  /\ CacheKeyOf(locals.url, given.analysis) \notin DOMAIN store

\* the FNV prime 16777619 = 256 * 65536 + 403, as two 16-bit limbs
FNV_PRIME_HI == 256
FNV_PRIME_LO == 403

\* (h * 16777619) mod 2^32 on the limbs of h
TimesFnvPrime(h) ==
  LET lo == h.lo * FNV_PRIME_LO
      hi == (h.hi * FNV_PRIME_LO) + (h.lo * FNV_PRIME_HI) + (lo \div 65536)
  IN  [hi |-> hi % 65536, lo |-> lo % 65536]

\* 32-bit FNV-1a of the character codes of str, from the offset basis
\* 2166136261 = 33052 * 65536 + 40389
RECURSIVE Fnv1a(_)
Fnv1a(str) ==
  IF str = <<>> THEN [hi |-> FNV_OFFSET_HI, lo |-> FNV_OFFSET_LO]
  ELSE TimesFnvPrime(HashXor(Fnv1a(SubSeq(str, 1, Len(str) - 1)), str[Len(str)]))

\* the number that base-36 digits, most significant first, stand for
RECURSIVE FromBase36(_)
FromBase36(digits) ==
  IF digits = <<>> THEN [hi |-> 0, lo |-> 0]
  ELSE LET front == FromBase36(SubSeq(digits, 1, Len(digits) - 1))
           lo == (front.lo * 36) + digits[Len(digits)]
       IN  [hi |-> ((front.hi * 36) + (lo \div 65536)) % 65536, lo |-> lo % 65536]

\* limbs at the edges of the 16-bit range, and those of the offset basis
EdgeLimbs == {0, 1, 255, 256, 32767, 32768, 65535, FNV_OFFSET_HI, FNV_OFFSET_LO}
\* strings with the smallest and the largest character codes
EdgeStrings == { <<>>, <<0>>, <<65535>>, <<255, 256>>, <<65535, 65535, 0>> }

\* the digits of simpleHash(str) are the canonical base-36 digits of the
\* 32-bit FNV-1a hash of str
IsFnv1aBase36(str) ==
  LET digits == simpleHash(str)
  IN  /\ Len(digits) >= 1
      /\ \A i \in 1..Len(digits) : digits[i] \in 0..35
      /\ Len(digits) > 1 => digits[1] # 0
      /\ FromBase36(digits) = Fnv1a(str)

\* C33: simpleHash returns, for every input string, the base-36 encoding of
\* the unsigned 32-bit FNV-1a hash of its character codes (offset basis
\* 2166136261, prime 16777619, arithmetic modulo 2^32), and its shift-and-add
\* step equals the multiplication by the FNV prime modulo 2^32.
C33_SimpleHashIsFnv1a ==
  /\ hashOutput = simpleHash(JoinUrls(SortUrls(hashInput)))
  /\ IsFnv1aBase36(JoinUrls(SortUrls(hashInput)))
  /\ IsFnv1aBase36(JoinUrls(hashInput))
  /\ \A str \in EdgeStrings : IsFnv1aBase36(str)
  /\ \A hi \in EdgeLimbs, lo \in EdgeLimbs :
       HashMix([hi |-> hi, lo |-> lo]) = TimesFnvPrime([hi |-> hi, lo |-> lo])

\* the published test vector: FNV-1a of "a" is 0xE40C292C, 1r9wi7g in base 36
C33_Witness ==
  /\ hashInput = <<U1>>
  /\ Fnv1a(U1) = [hi |-> 58380, lo |-> 10540]
  /\ hashOutput = <<1, 27, 9, 32, 18, 7, 16>>

IsPrefix(a, b) == Len(a) <= Len(b) /\ SubSeq(b, 1, Len(a)) = a

\* C32: within a run the activity log only grows by appending at the end. In
\* every step that is not a reset of the pipeline the previous log is a
\* prefix of the new log: no entry is changed, reordered or removed.
C32_LogAppendOnly ==
  [][ ~PipelineReset => IsPrefix(activityLog, activityLog') ]_vars

\* the log of a run that has reached the action plan on a miss: the entries
\* of the crawl, the lookup, the ranking, the fan-out and the fan-in, in
\* call order
C32_Witness ==
  /\ pc = "plan"
  /\ Len(activityLog) >= 10
  /\ activityLog[1].message = "Starting sitemap discovery..."
  /\ activityLog[2].message = "Discovered URLs"
  /\ activityLog[Len(activityLog)].message = "Generating implementation roadmap..."

\* metadata.entries as getMetadata returns it: 0 while no record is persisted
EntriesCounted == IF meta = NoMeta THEN 0 ELSE meta.entries

\* C34: once all deferred tasks have run, the metadata's entry count equals
\* the number of entries physically present in the store, after any sequence
\* of store, lookup, invalidate, clear, sweep and enforcement operations
\* whose storage calls all succeeded.
C34_EntryCountMatchesStore ==
  (pendingCleanup = 0 /\ pendingEnforce = 0 /\ faults = 0) =>
    EntriesCounted = Cardinality(DOMAIN store)

\* C35: after any sequence of store, lookup, invalidate and clear operations
\* in which no write hits the quota and no storage call fails, once all
\* deferred enforcement tasks have run, the store holds at most
\* MAX_CACHE_SIZE entries.
C35_CeilingAfterEnforcement ==
  (pendingEnforce = 0 /\ faults = 0) =>
    Cardinality(DOMAIN store) <= MAX_CACHE_SIZE

\* the keys the stores of SweepSpec use
SweepKeys == { CacheKeyOf(in.domainUrl, in.urls) : in \in CacheInputs }

\* the entry under k is stored, readable and expired
ExpiredEntry(k) ==
  k \in DOMAIN store /\ Parses(store[k]) /\ Expired(store[k], now)

\* no scan has been recorded within the last CLEANUP_INTERVAL_MS
ScanDue == meta = NoMeta \/ now - meta.lastCleanup >= CLEANUP_INTERVAL_MS

\* C36: an expired entry that is never looked up again is eventually deleted
\* by a sweep, provided lookups for other keys keep being issued as time
\* advances, from every reachable cache state, also one in which no metadata
\* record has been persisted: whenever an entry is expired and no scan was
\* made within the last hour, the entry is eventually gone (or stored anew).
C36_ExpiredEventuallySwept ==
  \A k \in SweepKeys :
    (ExpiredEntry(k) /\ ScanDue) ~> ~ExpiredEntry(k)

\* C37: in every reachable state a stage whose status is complete has
\* progress 100 and its end time set, also when a progress callback of the
\* stage's collaborator is delivered after the stage was marked complete (the
\* crawl progress callback waits for an animation frame before it is applied).
C37_CompleteStageIsFull ==
  \A s \in StageIds :
    Status(s) = "complete" =>
      /\ pipelineStages[s].progress = 100
      /\ pipelineStages[s].endTime # Nil

\* a progress callback is delivered while the current run has none of its own
\* collaborators in flight: it belongs to a collaborator of an earlier run
EarlierRunCallback ==
  /\ cbCount' = cbCount + 1
  /\ stale # {}
  /\ appState = "loading"
  /\ runNo > 1
  /\ audit # "inflight"
  /\ seo # "inflight"
  /\ pc \notin {"crawl", "hitPlan", "plan"}

\* C38: a progress callback delivered by a collaborator of an earlier run,
\* after that run ended in error, the pipeline was reset and a new run was
\* started, changes no stage and appends no log entry of the new run.
C38_EarlierRunCallbackIgnored ==
  [][EarlierRunCallback =>
       /\ pipelineStages' = pipelineStages
       /\ activityLog' = activityLog]_vars

\* a started run ends in error in this step
RunEndsInError == appState = "loading" /\ appState' = "error"

\* C39: whenever a started run ends in error status, at least one stage has
\* status error when the run terminates (the stage whose work failed); this
\* includes the run that fails because the crawl discovered no URL.
C39_FailedRunHasErrorStage ==
  [][RunEndsInError => \E s \in StageIds : pipelineStages'[s].status = "error"]_vars

====
